---- MODULE Spec2Model ----
(***************************************************************************)
(* facto: the AIService orchestration loop (services/ai_service.py), the   *)
(* ToolExecutor fan-out (tools/executor.py), the tool registry             *)
(* (tools/registry.py), the streaming handler (services/streaming.py) and  *)
(* the provider adapters (providers/), as a state machine whose steps are  *)
(* the suspension points (await / yield) of the asyncio code.              *)
(***************************************************************************)
EXTENDS Integers, Sequences, FiniteSets, TLC

(***************************************************************************)
(* Bounds of the exploration.                                              *)
(***************************************************************************)
\* largest value of config.tools.max_tool_iterations that is explored
MaxToolIterations == 2
\* most chunks the provider streams delivered to one stream_response request
MaxChunks == 2
\* longest batch handed to execute_all when the executor is driven directly
MaxCalls == 3
\* last tick of the clock the streaming handler reads
MaxTime == 4
\* most append calls on one started streaming handler
MaxAppends == 2
\* most RetryAfter answers the transport gives to one handler operation
MaxRateLimits == 1
\* most requests that a provider error aborts
MaxFailures == 2
\* longest message history handed to a provider adapter driven directly
MaxHistory == 3
\* most register / unregister calls on a registry driven directly
MaxRegistryOps == 3
\* longest string in a tool result serialized on its own
MaxText == 2
\* longest text given to _split_message, and largest max_length
MaxReply == 7
MaxSplitLength == 5
\* most entries in a work log at a time
MaxEntries == 2
\* most chunks a vendor stream delivers to OpenAIProvider.stream
MaxEvents == 3
\* most content blocks of an Anthropic message, and most deltas of a block
MaxBlocks == 2
MaxFragments == 2

VARIABLES
    provider,            \* AIService.provider (the active provider, by name)
    tool_registry,       \* AIService.tool_registry: [attached, tools]
    tool_executor,       \* AIService.tool_executor is not None
    config,              \* Config: providers, tools.enabled, tools.max_tool_iterations
    pc,                  \* suspension point of the request in flight
    input_messages,      \* the caller's list of message dicts
    converted_messages,  \* get_response / stream_response local
    current_messages,    \* _handle_tool_calls(_streaming) local
    current_response,    \* _handle_tool_calls local (last CompletionResponse)
    iteration,           \* _handle_tool_calls local
    accumulated_content, \* stream_response local
    tool_calls,          \* stream_response local
    last_chunk,          \* stream_response loop variable `chunk`
    returned,            \* value returned by get_response
    responses,           \* log of the CompletionResponses provider.complete returned
    calls,               \* log of provider.complete / provider.stream invocations
    batches,             \* log of the batches given to execute_all by the request
    produced,            \* log of the chunks the provider streams delivered, each
                         \* with the number of the provider.stream call it came from
    yielded,             \* log of the chunks stream_response yielded
    ex_pc,               \* ToolExecutor.execute_all: idle / gather / returned / raised
    batch,               \* execute_all argument tool_calls
    tasks,               \* the coroutines of execute_all, by input position
    order,               \* positions of `tasks` in completion order
    results,             \* value returned by execute_all
    message_id,          \* TelegramStreamingHandler.message_id
    accumulated_text,    \* TelegramStreamingHandler.accumulated_text
    last_update_time,    \* TelegramStreamingHandler.last_update_time
    last_sent_length,    \* TelegramStreamingHandler.last_sent_length
    update_interval_ms,  \* TelegramStreamingHandler.update_interval_ms
    min_chars_per_update,\* TelegramStreamingHandler.min_chars_per_update
    now,                 \* time.time() * 1000, in clock ticks
    h_pc,                \* suspension point of the handler operation in flight
    retry_after,         \* e.retry_after of the RetryAfter being slept on
    phase,               \* position of _process_streaming_response, the caller
    ops,                 \* log of the handler operations called
    edits,               \* the bot.edit_message_text calls of the last operation
    transport,           \* what the transport has seen of the message
    memory,              \* the assistant messages the caller added to the conversation
                         \* for the reply the handler streams
    notices,             \* number of error notices the caller sent for that reply
    switched,            \* the ValueError of the last switch_provider call, if it raised
    failed,              \* log of the errors that requests raised to their callers
    adapter_request,     \* a provider adapter call: adapter, method, messages, failure
    adapter_result,      \* what the adapter sent to the vendor and how the call ended
    registry,            \* ToolRegistry._tools of a registry driven directly
    registry_log,        \* log of the register / unregister calls on it
    call_args,           \* the arguments of a function called on its own
    call_result,         \* what that call returned
    worklog,             \* WorkLogMemory._worklogs[thread_id] of one topic, if any
    worklog_log,         \* the entries of the last /done preview and of the summary
    vendor_events,       \* log of the events a vendor SDK stream has delivered
    stream_locals,       \* locals of the provider adapter's stream generator
    stream_chunks        \* log of the StreamChunks that generator yielded

svc_vars == <<provider, tool_registry, tool_executor, config, pc, input_messages,
              converted_messages, current_messages, current_response, iteration,
              accumulated_content, tool_calls, last_chunk, returned, responses,
              calls, batches, produced, yielded>>
ex_vars == <<ex_pc, batch, tasks, order, results>>
sh_vars == <<message_id, accumulated_text, last_update_time, last_sent_length,
             update_interval_ms, min_chars_per_update, now, h_pc, retry_after,
             phase, ops, edits, transport, memory, notices>>
log_vars == <<switched, failed>>
fn_vars == <<call_args, call_result>>
wl_vars == <<worklog, worklog_log>>
pv_vars == <<vendor_events, stream_locals, stream_chunks>>
lib_vars == <<adapter_request, adapter_result, registry, registry_log, fn_vars, wl_vars,
              pv_vars>>
vars == <<svc_vars, ex_vars, sh_vars, log_vars, lib_vars>>

(***************************************************************************)
(* Values.  A Python dict is the sequence of its (key, value) items in     *)
(* insertion order; Optional[str] None is the string below.                *)
(***************************************************************************)
None == "<None>"

Keys(d) == {d[i][1] : i \in 1..Len(d)}

Get(d, k) == LET i == CHOOSE j \in 1..Len(d) : d[j][1] = k IN d[i][2]

ToolCall(id, name, arguments) == [id |-> id, name |-> name, arguments |-> arguments]

Message(role, content, tcs, tool_call_id) ==
    [role |-> role, content |-> content, tool_calls |-> tcs, tool_call_id |-> tool_call_id]

CompletionResponse(content, tcs) == [content |-> content, tool_calls |-> tcs]

StreamChunk(content, tcs, finish_reason, is_complete) ==
    [content |-> content, tool_calls |-> tcs, finish_reason |-> finish_reason,
     is_complete |-> is_complete]

NoResult == [t |-> "none", v |-> <<>>]

DictResult(d) == [t |-> "dict", v |-> d]

ToolResult(success, result, error) == [success |-> success, result |-> result, error |-> error]

(***************************************************************************)
(* ToolResult.to_message_content                                           *)
(***************************************************************************)
RECURSIVE JsonItems(_)
JsonItems(d) ==
    IF d = <<>> THEN ""
    ELSE "  \"" \o d[1][1] \o "\": \"" \o d[1][2] \o "\""
         \o (IF Len(d) > 1 THEN ",\n" ELSE "\n") \o JsonItems(Tail(d))

\* json.dumps(d, indent=2) of a dict of strings
JsonDumps(d) == IF d = <<>> THEN "{}" ELSE "{\n" \o JsonItems(d) \o "}"

ToMessageContent(r) ==
    IF r.success
    THEN IF r.result.t = "dict" THEN JsonDumps(r.result.v) ELSE "None"
    ELSE "Error: " \o r.error

(***************************************************************************)
(* The tools of facto.tools.implementations: Tool.execute called with the  *)
(* arguments as keywords.  Returned(r) is a normal return, Raised(e) an    *)
(* exception whose str is e.                                               *)
(***************************************************************************)
Returned(r) == [raised |-> FALSE, value |-> r, exc |-> None]

Raised(e) == [raised |-> TRUE, value |-> ToolResult(FALSE, NoResult, None), exc |-> e]

IsoDates == {"2024-01-15T14:30:00"}

\* WebSearchTool.execute(query, num_results=3); the "results" list of the
\* payload is left out of the modelled dict.
WebSearchExecute(args) ==
    IF "query" \notin Keys(args)
    THEN Raised("WebSearchTool.execute() missing 1 required positional argument: 'query'")
    ELSE IF ~(Keys(args) \subseteq {"query", "num_results"})
    THEN Raised("WebSearchTool.execute() got an unexpected keyword argument")
    ELSE Returned(ToolResult(TRUE,
            DictResult(<< <<"query", Get(args, "query")>>,
                          <<"note", "This is a placeholder. Configure a real search API for actual results.">> >>),
            None))

\* SetReminderTool.execute(message, datetime_str)
SetReminderExecute(args) ==
    IF ~({"message", "datetime_str"} \subseteq Keys(args))
    THEN Raised("SetReminderTool.execute() missing required positional arguments")
    ELSE IF ~(Keys(args) \subseteq {"message", "datetime_str"})
    THEN Raised("SetReminderTool.execute() got an unexpected keyword argument")
    ELSE IF Get(args, "datetime_str") \notin IsoDates
    THEN Returned(ToolResult(FALSE, NoResult,
            "Invalid datetime format: Invalid isoformat string: '" \o Get(args, "datetime_str")
            \o "'. Use ISO format like '2024-01-15T14:30:00'"))
    ELSE Returned(ToolResult(TRUE,
            DictResult(<< <<"message", Get(args, "message")>>,
                          <<"scheduled_for", Get(args, "datetime_str")>>,
                          <<"status", "scheduled">>,
                          <<"note", "This is a placeholder. Implement actual reminder scheduling.">> >>),
            None))

\* SaveNoteTool.execute(title, content, tags=None); the "note" sub-dict of the
\* payload (note_id, created_at, ...) is left out of the modelled dict.
SaveNoteExecute(args) ==
    IF ~({"title", "content"} \subseteq Keys(args))
    THEN Raised("SaveNoteTool.execute() missing required positional arguments")
    ELSE IF ~(Keys(args) \subseteq {"title", "content", "tags"})
    THEN Raised("SaveNoteTool.execute() got an unexpected keyword argument")
    ELSE Returned(ToolResult(TRUE,
            DictResult(<< <<"message", "Note '" \o Get(args, "title") \o "' saved successfully">> >>),
            None))

\* dynamic dispatch of tool.execute on the registered Tool instance
ToolExecute(name, args) ==
    IF name = "web_search" THEN WebSearchExecute(args)
    ELSE IF name = "save_note" THEN SaveNoteExecute(args)
    ELSE IF name = "set_reminder" THEN SetReminderExecute(args)
    ELSE Raised("NotImplementedError")

\* main.setup_tools: the registry the application attaches
SetupTools == <<"web_search", "save_note", "set_reminder">>

\* tool calls a provider may return
SearchCall == ToolCall("call_1", "web_search", << <<"query", "tla">> >>)

\* a call whose JSON arguments did not decode (arguments = {})
EmptyArgsCall == ToolCall("call_2", "web_search", <<>>)

ReminderCall ==
    ToolCall("call_3", "set_reminder", << <<"message", "tea">>, <<"datetime_str", "soon">> >>)

\* a call that names a tool no registry holds
UnknownCall == ToolCall("call_4", "calculator", << <<"expr", "1+1">> >>)

ToolCallPool == {SearchCall, EmptyArgsCall, ReminderCall, UnknownCall}

(***************************************************************************)
(* ToolRegistry                                                            *)
(***************************************************************************)
\* ToolRegistry.get(name) is not None
RegistryHas(reg, name) == \E i \in 1..Len(reg.tools) : reg.tools[i] = name

\* bool(tool_registry): None is falsy, and so is a registry of length 0,
\* since ToolRegistry defines __len__
RegistryTruthy(reg) == reg.attached /\ Len(reg.tools) > 0

\* Tool.to_openai_schema
ToOpenAISchema(name) == [type |-> "function", function |-> [name |-> name]]

\* ToolRegistry.get_openai_schemas
GetOpenAISchemas(reg) == [i \in 1..Len(reg.tools) |-> ToOpenAISchema(reg.tools[i])]

\* the Optional[list[dict]] `tools` argument of a provider call
NoTools == [is_none |-> TRUE, schemas |-> <<>>]

SomeTools(s) == [is_none |-> FALSE, schemas |-> s]

(***************************************************************************)
(* ToolExecutor                                                            *)
(***************************************************************************)
\* execute_tool_call without its try/except
ExecuteToolCallUncaught(reg, tc) ==
    IF ~RegistryHas(reg, tc.name)
    THEN Returned(ToolResult(FALSE, NoResult, "Unknown tool: " \o tc.name))
    ELSE ToolExecute(tc.name, tc.arguments)

\* ToolExecutor.execute_tool_call: the outcome of the coroutine
ExecuteToolCall(reg, tc) ==
    IF ~RegistryHas(reg, tc.name)
    THEN Returned(ToolResult(FALSE, NoResult, "Unknown tool: " \o tc.name))
    ELSE LET r == ToolExecute(tc.name, tc.arguments)
         IN IF r.raised THEN Returned(ToolResult(FALSE, NoResult, r.exc)) ELSE r

PendingTask == [done |-> FALSE, outcome |-> Raised(None)]

AllDone == \A i \in 1..Len(tasks) : tasks[i].done

AnyRaised == \E i \in 1..Len(tasks) : tasks[i].done /\ tasks[i].outcome.raised

\* results in the order in which the coroutines completed
GatherCompletionOrder(ts, ord) == [i \in 1..Len(ord) |-> ts[ord[i]].outcome.value]

\* asyncio.gather over the coroutines: the results, in the order of the awaitables given
Gather(ts, ord) == [i \in 1..Len(ts) |-> ts[i].outcome.value]

\* list(zip(tool_calls, results))
Zip(tcs, rs) ==
    [i \in 1..(IF Len(tcs) < Len(rs) THEN Len(tcs) ELSE Len(rs)) |-> <<tcs[i], rs[i]>>]

\* execute_all up to its await: one coroutine per call
StartBatch(tcs) ==
    /\ batch' = tcs
    /\ tasks' = [i \in 1..Len(tcs) |-> PendingTask]
    /\ order' = <<>>
    /\ results' = <<>>
    /\ ex_pc' = "gather"

\* one coroutine of the batch runs to completion; any pending one may be next
TaskFinish(i) ==
    /\ ex_pc = "gather"
    /\ i \in 1..Len(tasks)
    /\ ~tasks[i].done
    /\ tasks' = [tasks EXCEPT ![i] = [done |-> TRUE,
                                      outcome |-> ExecuteToolCall(tool_registry, batch[i])]]
    /\ order' = Append(order, i)
    /\ UNCHANGED <<ex_pc, batch, results, svc_vars>>
    /\ UNCHANGED <<sh_vars, log_vars, lib_vars>>

\* the value execute_all returns once gather has every result
ExecuteAllResult == Zip(batch, Gather(tasks, order))

(***************************************************************************)
(* AIService                                                               *)
(***************************************************************************)
\* AIProviderType
ProviderTypes == {"openai", "anthropic", "deepseek"}

\* names a caller may hand to switch_provider
SwitchNames == ProviderTypes \cup {"mistral", "DeepSeek"}

\* OpenAIProvider / AnthropicProvider / DeepSeekProvider .supports_tools
SupportsTools(p) == p \in {"openai", "anthropic", "deepseek"}

\* AIService._convert_dict_messages
ConvertDictMessages(ms) ==
    [i \in 1..Len(ms) |->
        Message(ms[i].role,
                IF "content" \in DOMAIN ms[i] THEN ms[i].content ELSE "",
                <<>>, None)]

\* a resolution that offers the tools of setup_tools when the registry has none
GetToolsFallingBack ==
    IF config.tools_enabled /\ SupportsTools(provider)
    THEN SomeTools(GetOpenAISchemas(IF RegistryTruthy(tool_registry)
                                    THEN tool_registry
                                    ELSE [attached |-> TRUE, tools |-> SetupTools]))
    ELSE NoTools

\* AIService._get_tools
GetTools ==
    IF RegistryTruthy(tool_registry) /\ config.tools_enabled /\ SupportsTools(provider)
    THEN SomeTools(GetOpenAISchemas(tool_registry))
    ELSE NoTools

\* the tools argument of the provider calls made inside the tool loop:
\* self.tool_registry.get_openai_schemas() if self.tool_registry else None
LoopTools ==
    IF RegistryTruthy(tool_registry)
    THEN SomeTools(GetOpenAISchemas(tool_registry))
    ELSE NoTools

\* one entry of the log of provider invocations
ProviderCall(method, msgs, tls) ==
    [method |-> method, provider |-> provider, messages |-> msgs, tools |-> tls]

\* tool messages for the successful results only
ToolMessagesSkipFailed(rs) ==
    LET ok == SelectSeq(rs, LAMBDA r : r[2].success)
    IN [i \in 1..Len(ok) |-> Message("tool", ToMessageContent(ok[i][2]), <<>>, ok[i][1].id)]

\* the assistant message put in front of the history
WithAssistantFirst(history, content, tcs) ==
    <<Message("assistant", content, tcs, None)>> \o history

\* messages.copy() and the append of the assistant message with its tool calls
WithAssistant(history, content, tcs) ==
    Append(history, Message("assistant", content, tcs, None))

\* the tool messages appended after a batch, one per (tool_call, result)
ToolMessages(rs) ==
    [i \in 1..Len(rs) |-> Message("tool", ToMessageContent(rs[i][2]), <<>>, rs[i][1].id)]

\* the chunks _handle_tool_calls_streaming yields for the results of a batch
ToolInfoChunks(rs) ==
    [i \in 1..Len(rs) |->
        StreamChunk("\n[Tool: " \o rs[i][1].name \o " - "
                    \o (IF rs[i][2].success THEN "completed" ELSE "failed") \o "]\n",
                    <<>>, None, FALSE)]

FromProvider(c) == [chunk |-> c, from |-> "provider"]

FromService(c) == [chunk |-> c, from |-> "service"]

\* forwarding that skips the chunks without text
ForwardTextOnly(c) == IF c.content = "" THEN <<>> ELSE <<FromProvider(c)>>

\* what stream_response yields for one chunk of a provider stream
Forward(c) == <<FromProvider(c)>>

\* truthiness of a tool_calls list that is tested with `is not None`
HasToolCallsNotNone(tcs) == TRUE

\* truthiness of a tool_calls list
HasToolCalls(tcs) == tcs # <<>>

\* get_response: `if response.tool_calls and self.tool_executor`
EntersToolLoop(resp) == HasToolCalls(resp.tool_calls) /\ tool_executor

\* the loop guard with the cap compared by <=
LoopContinuesInclusive(resp, iter) ==
    HasToolCalls(resp.tool_calls) /\ iter <= config.max_tool_iterations

\* _handle_tool_calls: `while current_response.tool_calls and iteration < max_iterations`
LoopContinues(resp, iter) ==
    HasToolCalls(resp.tool_calls) /\ iter < config.max_tool_iterations

\* the streaming test without the terminal-chunk condition
StreamEntersToolLoopAnyChunk(chunk, tcs) == HasToolCalls(tcs) /\ tool_executor

\* stream_response: `if chunk.is_complete and tool_calls and self.tool_executor`
StreamEntersToolLoop(chunk, tcs) ==
    chunk.is_complete /\ HasToolCalls(tcs) /\ tool_executor

static_vars == <<tool_registry, tool_executor, config>>

NoResponse == CompletionResponse("", <<>>)

NoChunk == StreamChunk("", <<>>, None, FALSE)

\* the locals and logs of a request, before the request starts
RequestCleared ==
    /\ input_messages' = <<>>
    /\ converted_messages' = <<>>
    /\ current_messages' = <<>>
    /\ current_response' = NoResponse
    /\ iteration' = 0
    /\ accumulated_content' = ""
    /\ tool_calls' = <<>>
    /\ last_chunk' = NoChunk
    /\ returned' = None
    /\ responses' = <<>>
    /\ calls' = <<>>
    /\ batches' = <<>>
    /\ produced' = <<>>
    /\ yielded' = <<>>

\* str.lower on the names that are tried
Lower(name) == IF name = "DeepSeek" THEN "deepseek" ELSE name

\* an outcome of create_by_name: the ValueError raised, or the provider made
ProviderRaised(message) == [error |-> message, provider |-> None]
ProviderCreated(provider_type) == [error |-> None, provider |-> provider_type]

\* create_by_name without its two checks
CreateByNameUnchecked(name, cfg) == ProviderCreated(Lower(name))

\* ProviderFactory.create_by_name: ValueError for a name that is no
\* AIProviderType, and for a type that is not in config.providers
CreateByName(name, cfg) ==
    IF Lower(name) \notin ProviderTypes
    THEN ProviderRaised("Unknown provider: " \o name)
    ELSE IF Lower(name) \notin cfg.providers
         THEN ProviderRaised("Provider " \o name \o " not configured")
         ELSE ProviderCreated(Lower(name))

\* the last switch_provider call, if any, returned
NoSwitch == [name |-> None, error |-> None]

\* no request has raised yet
NoLog ==
    /\ switched = NoSwitch
    /\ failed = <<>>

\* AIService.switch_provider: the assignment to self.provider happens only
\* when create_by_name returned
SwitchProvider(name) ==
    LET created == CreateByName(name, config)
    IN /\ provider' = IF created.error = None THEN created.provider ELSE provider
       /\ switched' = IF created.error = None
                      THEN NoSwitch
                      ELSE [name |-> name, error |-> created.error]
       /\ UNCHANGED <<static_vars, pc, input_messages, converted_messages,
                      current_messages, current_response, iteration,
                      accumulated_content, tool_calls, last_chunk, returned,
                      responses, calls, batches, produced, yielded, ex_vars>>
       /\ UNCHANGED <<sh_vars, failed, lib_vars>>

\* get_response up to `await self.provider.complete(converted_messages, tools)`
GetResponse(messages, use_tools) ==
    /\ pc = "idle"
    /\ input_messages' = messages
    /\ converted_messages' = ConvertDictMessages(messages)
    /\ calls' = <<ProviderCall("complete", ConvertDictMessages(messages),
                               IF use_tools THEN GetTools ELSE NoTools)>>
    /\ pc' = "complete"
    /\ UNCHANGED <<provider, static_vars, current_messages, current_response,
                   iteration, accumulated_content, tool_calls, last_chunk,
                   returned, responses, batches, produced, yielded, ex_vars>>
    /\ UNCHANGED <<sh_vars, log_vars, lib_vars>>

\* _handle_tool_calls from the loop test: either one more iteration, up to
\* `await self.tool_executor.execute_all(...)`, or `return current_response.content`
LoopHead(msgs, resp, iter) ==
    /\ current_response' = resp
    /\ IF LoopContinues(resp, iter)
       THEN /\ iteration' = iter + 1
            /\ current_messages' = WithAssistant(msgs, resp.content, resp.tool_calls)
            /\ batches' = Append(batches, resp.tool_calls)
            /\ StartBatch(resp.tool_calls)
            /\ pc' = "execute_all"
            /\ UNCHANGED returned
       ELSE /\ iteration' = iter
            /\ current_messages' = msgs
            /\ returned' = resp.content
            /\ pc' = "done"
            /\ UNCHANGED <<batches, ex_vars>>

\* the first provider.complete returns `response`
CompleteReturn(response) ==
    /\ pc = "complete"
    /\ responses' = Append(responses, response)
    /\ IF EntersToolLoop(response)
       THEN LoopHead(converted_messages, response, 0)
       ELSE /\ returned' = response.content
            /\ pc' = "done"
            /\ UNCHANGED <<current_messages, current_response, iteration, batches, ex_vars>>
    /\ UNCHANGED <<provider, static_vars, input_messages, converted_messages,
                   accumulated_content, tool_calls, last_chunk, calls, produced, yielded>>
    /\ UNCHANGED <<sh_vars, log_vars, lib_vars>>

\* execute_all returns into _handle_tool_calls: the tool messages are appended
\* and the next provider.complete is awaited
ToolsReturn ==
    /\ pc = "execute_all"
    /\ ex_pc = "gather"
    /\ AllDone \/ AnyRaised
    /\ IF AnyRaised
       THEN /\ ex_pc' = "raised"
            /\ pc' = "raised"
            /\ UNCHANGED <<results, current_messages, calls>>
       ELSE /\ ex_pc' = "returned"
            /\ results' = ExecuteAllResult
            /\ current_messages' = current_messages \o ToolMessages(ExecuteAllResult)
            /\ calls' = Append(calls,
                   ProviderCall("complete",
                                current_messages \o ToolMessages(ExecuteAllResult),
                                LoopTools))
            /\ pc' = "loop_complete"
    /\ UNCHANGED <<provider, static_vars, input_messages, converted_messages,
                   current_response, iteration, accumulated_content, tool_calls,
                   last_chunk, returned, responses, batches, produced, yielded,
                   batch, tasks, order>>
    /\ UNCHANGED <<sh_vars, log_vars, lib_vars>>

\* the provider.complete of the loop returns `response`
LoopCompleteReturn(response) ==
    /\ pc = "loop_complete"
    /\ responses' = Append(responses, response)
    /\ LoopHead(current_messages, response, iteration)
    /\ UNCHANGED <<provider, static_vars, input_messages, converted_messages,
                   accumulated_content, tool_calls, last_chunk, calls, produced, yielded>>
    /\ UNCHANGED <<sh_vars, log_vars, lib_vars>>

\* stream_response up to the first `async for` step on provider.stream
StreamResponse(messages, use_tools) ==
    /\ pc = "idle"
    /\ input_messages' = messages
    /\ converted_messages' = ConvertDictMessages(messages)
    /\ accumulated_content' = ""
    /\ tool_calls' = <<>>
    /\ calls' = <<ProviderCall("stream", ConvertDictMessages(messages),
                               IF use_tools THEN GetTools ELSE NoTools)>>
    /\ pc' = "stream"
    /\ UNCHANGED <<provider, static_vars, current_messages, current_response,
                   iteration, last_chunk, returned, responses, batches, produced,
                   yielded, ex_vars>>
    /\ UNCHANGED <<sh_vars, log_vars, lib_vars>>

\* the first provider stream delivers `chunk`: accumulate, then `yield chunk`
StreamNext(chunk) ==
    /\ pc = "stream"
    /\ Len(produced) < MaxChunks
    /\ produced' = Append(produced, [chunk |-> chunk, call |-> 1])
    /\ accumulated_content' = accumulated_content \o chunk.content
    /\ tool_calls' = IF HasToolCalls(chunk.tool_calls)
                     THEN tool_calls \o chunk.tool_calls ELSE tool_calls
    /\ last_chunk' = chunk
    /\ yielded' = yielded \o Forward(chunk)
    /\ pc' = "yield"
    /\ UNCHANGED <<provider, static_vars, input_messages, converted_messages,
                   current_messages, current_response, iteration, returned,
                   responses, calls, batches, ex_vars>>
    /\ UNCHANGED <<sh_vars, log_vars, lib_vars>>

\* the caller asks for the next chunk: the generator resumes after the yield,
\* and either enters _handle_tool_calls_streaming, up to its execute_all, or
\* loops to the next chunk of the first stream
StreamResume ==
    /\ pc = "yield"
    /\ IF StreamEntersToolLoop(last_chunk, tool_calls)
       THEN /\ current_messages' =
                   WithAssistant(converted_messages, accumulated_content, tool_calls)
            /\ batches' = Append(batches, tool_calls)
            /\ StartBatch(tool_calls)
            /\ pc' = "stream_execute_all"
       ELSE /\ pc' = "stream"
            /\ UNCHANGED <<current_messages, batches, ex_vars>>
    /\ UNCHANGED <<provider, static_vars, input_messages, converted_messages,
                   current_response, iteration, accumulated_content, tool_calls,
                   last_chunk, returned, responses, calls, produced, yielded>>
    /\ UNCHANGED <<sh_vars, log_vars, lib_vars>>

\* execute_all returns into _handle_tool_calls_streaming: one info chunk is
\* yielded and one tool message appended per result, then provider.stream is
\* invoked on the extended history
StreamToolsReturn ==
    /\ pc = "stream_execute_all"
    /\ ex_pc = "gather"
    /\ AllDone \/ AnyRaised
    /\ IF AnyRaised
       THEN /\ ex_pc' = "raised"
            /\ pc' = "raised"
            /\ UNCHANGED <<results, current_messages, calls, yielded, order>>
       ELSE /\ ex_pc' = "returned"
            /\ results' = ExecuteAllResult
            /\ yielded' = yielded \o [i \in 1..Len(ExecuteAllResult) |->
                                        FromService(ToolInfoChunks(ExecuteAllResult)[i])]
            /\ current_messages' = current_messages \o ToolMessages(ExecuteAllResult)
            /\ calls' = Append(calls,
                   ProviderCall("stream",
                                current_messages \o ToolMessages(ExecuteAllResult),
                                LoopTools))
            /\ order' = <<>>
            /\ pc' = "continuation"
    /\ UNCHANGED <<provider, static_vars, input_messages, converted_messages,
                   current_response, iteration, accumulated_content, tool_calls,
                   last_chunk, returned, responses, batches, produced,
                   batch, tasks>>
    /\ UNCHANGED <<sh_vars, log_vars, lib_vars>>

\* the continuation stream delivers `chunk`: `yield chunk`, re-yielded by
\* stream_response as continuation_chunk
ContinuationNext(chunk) ==
    /\ pc = "continuation"
    /\ Len(produced) < MaxChunks
    /\ produced' = Append(produced, [chunk |-> chunk, call |-> Len(calls)])
    /\ yielded' = yielded \o Forward(chunk)
    /\ UNCHANGED <<provider, static_vars, pc, input_messages, converted_messages,
                   current_messages, current_response, iteration,
                   accumulated_content, tool_calls, last_chunk, returned,
                   responses, calls, batches, ex_vars>>
    /\ UNCHANGED <<sh_vars, log_vars, lib_vars>>

\* the continuation stream is exhausted: _handle_tool_calls_streaming ends and
\* stream_response goes on with the first stream
ContinuationEnd ==
    /\ pc = "continuation"
    /\ pc' = "stream"
    /\ UNCHANGED <<provider, static_vars, input_messages, converted_messages,
                   current_messages, current_response, iteration,
                   accumulated_content, tool_calls, last_chunk, returned,
                   responses, calls, batches, produced, yielded, ex_vars>>
    /\ UNCHANGED <<sh_vars, log_vars, lib_vars>>

\* the first provider stream is exhausted: stream_response ends
StreamEnd ==
    /\ pc = "stream"
    /\ pc' = "done"
    /\ UNCHANGED <<provider, static_vars, input_messages, converted_messages,
                   current_messages, current_response, iteration,
                   accumulated_content, tool_calls, last_chunk, returned,
                   responses, calls, batches, produced, yielded, ex_vars>>
    /\ UNCHANGED <<sh_vars, log_vars, lib_vars>>

\* ToolExecutor.execute_all called on its own, up to its await
ExecuteAll(tcs) ==
    /\ pc = "idle"
    /\ ex_pc \in {"idle", "returned", "raised"}
    /\ StartBatch(tcs)
    /\ UNCHANGED svc_vars
    /\ UNCHANGED <<sh_vars, log_vars, lib_vars>>

\* gather has every result (or an exception of a coroutine): execute_all
\* returns the zipped list (or raises)
ExecuteAllReturn ==
    /\ pc = "idle"
    /\ ex_pc = "gather"
    /\ AllDone \/ AnyRaised
    /\ IF AnyRaised
       THEN ex_pc' = "raised" /\ UNCHANGED results
       ELSE ex_pc' = "returned" /\ results' = ExecuteAllResult
    /\ UNCHANGED <<batch, tasks, order, svc_vars>>
    /\ UNCHANGED <<sh_vars, log_vars, lib_vars>>

\* what the adapters raise for a failed vendor call
ProviderErrors ==
    {"AI request timed out. Please try again.", "Could not connect to AI service."}

\* the service catches the provider's error and calls the provider again
ProviderRaisesRetried(error) ==
    /\ Len(failed) < MaxFailures
    /\ failed' = Append(failed, error)
    /\ calls' = Append(calls, calls[Len(calls)])
    /\ UNCHANGED <<provider, static_vars, pc, input_messages, converted_messages,
                   current_messages, current_response, iteration,
                   accumulated_content, tool_calls, last_chunk, returned,
                   responses, batches, produced, yielded, ex_vars>>
    /\ UNCHANGED <<sh_vars, switched, lib_vars>>

\* an awaited provider call raises: no frame of the service has a handler,
\* the error leaves get_response / stream_response as it is
ProviderRaises(error) ==
    /\ Len(failed) < MaxFailures
    /\ failed' = Append(failed, error)
    /\ pc' = "raised"
    /\ UNCHANGED <<provider, static_vars, input_messages, converted_messages,
                   current_messages, current_response, iteration,
                   accumulated_content, tool_calls, last_chunk, returned,
                   responses, calls, batches, produced, yielded, ex_vars>>
    /\ UNCHANGED <<sh_vars, switched, lib_vars>>

\* provider.complete raises, in get_response or in the loop of _handle_tool_calls
CompleteRaises(error) ==
    /\ pc \in {"complete", "loop_complete"}
    /\ ProviderRaises(error)

\* provider.stream raises at an `async for` step, in stream_response or in
\* _handle_tool_calls_streaming
StreamRaises(error) ==
    /\ pc \in {"stream", "continuation"}
    /\ ProviderRaises(error)

\* the caller has the result or the error; the service is ready for the
\* next request
NextRequest ==
    /\ pc \in {"done", "raised"}
    /\ pc' = "idle"
    /\ RequestCleared
    /\ ex_pc' = "idle"
    /\ batch' = <<>>
    /\ tasks' = <<>>
    /\ order' = <<>>
    /\ results' = <<>>
    /\ UNCHANGED <<provider, static_vars>>
    /\ UNCHANGED <<sh_vars, log_vars, lib_vars>>

\* tool_registry.register(tool) on the registry the service was constructed
\* with, by the code that holds it: the service keeps the executor it has
RegisterAttached(name) ==
    /\ tool_registry.attached
    /\ \A i \in 1..Len(tool_registry.tools) : tool_registry.tools[i] # name
    /\ tool_registry' = [tool_registry EXCEPT !.tools = Append(@, name)]
    /\ UNCHANGED <<provider, tool_executor, config, pc, input_messages,
                   converted_messages, current_messages, current_response, iteration,
                   accumulated_content, tool_calls, last_chunk, returned, responses,
                   calls, batches, produced, yielded, ex_vars>>
    /\ UNCHANGED <<sh_vars, log_vars, lib_vars>>

(***************************************************************************)
(* TelegramStreamingHandler (services/streaming.py), driven the way        *)
(* _process_streaming_response drives it.  Steps are the awaits on the bot *)
(* and on asyncio.sleep; the clock moves between any two steps.            *)
(***************************************************************************)
\* Message.message_id of the message start() sent
SentMessageId == "msg_1"

\* the text finalize substitutes when nothing was accumulated
NoResponseText == "No response generated."

\* finalize's default parse_mode
DefaultParseMode == "Markdown"

\* what `await self.bot.edit_message_text(...)` comes back with
Accepted == [exc |-> "none", message |-> "", retry_after |-> 0]

RetryAfterError(r) == [exc |-> "RetryAfter", message |-> "flood control exceeded", retry_after |-> r]

\* str(e).lower() of a BadRequest, cut down to the fragment that is tested
BadRequestError(m) == [exc |-> "BadRequest", message |-> m, retry_after |-> 0]

NoAnswer == [exc |-> "pending", message |-> "", retry_after |-> 0]

NotModified == "message is not modified"

NotFound == "message to edit not found"

CantParse == "can't parse"

\* self.accumulated_text += text, in the order of arrival reversed
AppendTextPrepend(acc, text) == text \o acc

\* self.accumulated_text += text
AppendText(acc, text) == acc \o text

\* the gate with either condition enough
ShouldUpdateEither(time_since_update, chars_since_update) ==
    \/ time_since_update >= update_interval_ms
    \/ chars_since_update >= min_chars_per_update

\* _maybe_update: should_update
ShouldUpdate(time_since_update, chars_since_update) ==
    /\ time_since_update >= update_interval_ms
    /\ chars_since_update >= min_chars_per_update

\* _update_message: display_text
DisplayText(text, is_final) == IF is_final THEN text ELSE text \o " ..."

\* an accepted edit that leaves last_update_time alone
MarkSentKeepTime ==
    /\ last_sent_length' = Len(accumulated_text)
    /\ UNCHANGED last_update_time

\* _update_message after the edit was accepted
MarkSent ==
    /\ last_sent_length' = Len(accumulated_text)
    /\ last_update_time' = now

\* _update_message with the RetryAfter handler missing
OnEditErrorNoRetry(ans) == "absorb"

\* _update_message with a BadRequest handler that re-raises
OnEditErrorReraise(ans) ==
    IF ans.exc = "RetryAfter" THEN "retry" ELSE "raise"

\* _update_message: which except clause takes the exception of the edit
OnEditError(ans) ==
    IF ans.exc = "RetryAfter" THEN "retry" ELSE "absorb"

\* finalize falling back to plain text on every BadRequest
FinalizeFallsBackAlways(ans) == ans.exc = "BadRequest"

\* finalize: the BadRequest is about unparseable markup
FinalizeFallsBack(ans) == ans.exc = "BadRequest" /\ ans.message = CantParse

\* finalize: only BadRequest is caught around the first edit
FinalizeCatches(ans) == ans.exc = "BadRequest"

\* the text as it was appended, whatever finalize made of it
GetTextAppended == IF accumulated_text = NoResponseText THEN "" ELSE accumulated_text

\* get_text
GetText == accumulated_text

\* a call of start, append or finalize: its argument, how it ended and the
\* last answer the transport gave to an edit of it
Operation(name, text, result) ==
    [name |-> name, text |-> text, result |-> result, answer |-> NoAnswer]

\* a call of bot.edit_message_text: its arguments, its answer, and when it
\* was made and answered
Edit(text, parse_mode, is_final, at) ==
    [text |-> text, parse_mode |-> parse_mode, is_final |-> is_final, at |-> at,
     answer |-> NoAnswer, answered_at |-> at]

\* the operation in flight ends
OperationEnds(result, ans) ==
    ops' = [ops EXCEPT ![Len(ops)].result = result, ![Len(ops)].answer = ans]

\* the answer of the transport to the edit awaited
Answered(ans) ==
    [edits EXCEPT ![Len(edits)].answer = ans, ![Len(edits)].answered_at = now]

\* rate-limit signals the operation in flight has received
RateLimitsOfOperation ==
    Cardinality({i \in 1..Len(edits) : edits[i].answer.exc = "RetryAfter"})

\* what the transport has seen of the message: when it was sent, how many
\* edits append has issued, whether every answered edit was accepted, and
\* the time and text length of the last accepted edit (-1: none yet)
NoTransport ==
    [started_at |-> 0, edits_by_append |-> 0, all_accepted |-> TRUE,
     accepted_at |-> -1, accepted_length |-> 0]

EditIssuedByAppend == [transport EXCEPT !.edits_by_append = @ + 1]

EditAnswered(ans) ==
    IF ans.exc = "none"
    THEN [transport EXCEPT !.accepted_at = now, !.accepted_length = Len(accumulated_text)]
    ELSE [transport EXCEPT !.all_accepted = FALSE]

\* TelegramStreamingHandler.__init__
TelegramStreamingHandlerInit ==
    /\ message_id = None
    /\ accumulated_text = ""
    /\ last_update_time = 0
    /\ last_sent_length = 0
    /\ now = 0
    /\ h_pc = "idle"
    /\ retry_after = 0
    /\ phase = "constructed"
    /\ ops = <<>>
    /\ edits = <<>>
    /\ transport = NoTransport
    /\ memory = <<>>
    /\ notices = 0

\* no streaming request is being processed
NoStreamingHandler ==
    /\ TelegramStreamingHandlerInit
    /\ update_interval_ms = 0
    /\ min_chars_per_update = 0

sh_config == <<update_interval_ms, min_chars_per_update>>

other_vars == <<svc_vars, ex_vars, log_vars, lib_vars>>

caller_vars == <<memory, notices>>

\* appends made since start
NumAppends == Cardinality({i \in 1..Len(ops) : ops[i].name = "append"})

\* _update_message gets past its first guard
IssuesEdit(text) == text # "" /\ message_id # None

\* the caller runs the operations of one handler one after the other
OperationNotAwaited == TRUE

\* _process_streaming_response awaits start, each append and finalize: the
\* next operation begins when the previous one has returned or raised
OperationAwaited == h_pc = "idle"

\* time.time() moves on; the handler reads the clock only between start and
\* the end of finalize
Tick ==
    /\ now < MaxTime
    /\ phase \notin {"constructed", "finished"}
    /\ now' = now + 1
    /\ UNCHANGED <<message_id, accumulated_text, last_update_time, last_sent_length,
                   sh_config, h_pc, retry_after, phase, ops, edits, transport,
                   caller_vars, other_vars>>

\* start: bot.send_message answers (ok) or raises
Start(ok) ==
    /\ phase = "constructed"
    /\ h_pc = "idle"
    /\ IF ok
       THEN /\ message_id' = SentMessageId
            /\ last_update_time' = now
            /\ transport' = [NoTransport EXCEPT !.started_at = now]
            /\ ops' = Append(ops, Operation("start", "...", "returned"))
            /\ phase' = "streaming"
       ELSE /\ ops' = Append(ops, Operation("start", "...", "raised"))
            /\ phase' = "start_failed"
            /\ UNCHANGED <<message_id, last_update_time, transport>>
    /\ UNCHANGED <<accumulated_text, last_sent_length, sh_config, now, h_pc,
                   retry_after, edits, caller_vars, other_vars>>

\* append -> _maybe_update -> _update_message, up to the await on the edit
StreamingAppend(text) ==
    /\ phase = "streaming"
    /\ OperationAwaited
    /\ NumAppends < MaxAppends
    /\ LET acc == AppendText(accumulated_text, text)
           should_update ==
               /\ message_id # None
               /\ ShouldUpdate(now - last_update_time, Len(acc) - last_sent_length)
           issue == should_update /\ IssuesEdit(acc)
       IN /\ accumulated_text' = acc
          /\ ops' = Append(ops, Operation("append", text,
                                          IF issue THEN "pending" ELSE "returned"))
          /\ IF issue
             THEN /\ edits' = <<Edit(DisplayText(acc, FALSE), None, FALSE, now)>>
                  /\ transport' = EditIssuedByAppend
                  /\ h_pc' = "edit"
             ELSE /\ edits' = <<>>
                  /\ UNCHANGED <<transport, h_pc>>
    /\ UNCHANGED <<message_id, last_update_time, last_sent_length, sh_config, now,
                   retry_after, phase, caller_vars, other_vars>>

\* the edit of _update_message is answered: accepted, RetryAfter or BadRequest
EditAnswer(ans) ==
    /\ h_pc = "edit"
    /\ ans.exc = "RetryAfter" => RateLimitsOfOperation < MaxRateLimits
    /\ edits' = Answered(ans)
    /\ transport' = EditAnswered(ans)
    /\ IF ans.exc = "none"
       THEN /\ MarkSent
            /\ h_pc' = "idle"
            /\ OperationEnds("returned", ans)
            /\ UNCHANGED retry_after
       ELSE /\ UNCHANGED <<last_sent_length, last_update_time>>
            /\ CASE OnEditError(ans) = "retry" ->
                        /\ h_pc' = "sleep"
                        /\ retry_after' = ans.retry_after
                        /\ UNCHANGED ops
                 [] OnEditError(ans) = "absorb" ->
                        /\ h_pc' = "idle"
                        /\ OperationEnds("returned", ans)
                        /\ UNCHANGED retry_after
                 [] OTHER ->
                        /\ h_pc' = "idle"
                        /\ OperationEnds("raised", ans)
                        /\ UNCHANGED retry_after
    /\ UNCHANGED <<message_id, accumulated_text, sh_config, now, phase, caller_vars,
                   other_vars>>

\* asyncio.sleep(e.retry_after) is over: _update_message(is_final) again, up
\* to the await on the edit
SleepDone ==
    /\ h_pc = "sleep"
    /\ now + retry_after <= MaxTime
    /\ now' = now + retry_after
    /\ retry_after' = 0
    /\ LET is_final == edits[Len(edits)].is_final
       IN IF IssuesEdit(accumulated_text)
          THEN /\ edits' = Append(edits, Edit(DisplayText(accumulated_text, is_final),
                                              None, is_final, now + retry_after))
               /\ transport' = EditIssuedByAppend
               /\ h_pc' = "edit"
               /\ UNCHANGED ops
          ELSE /\ h_pc' = "idle"
               /\ OperationEnds("returned", edits[Len(edits)].answer)
               /\ UNCHANGED <<edits, transport>>
    /\ UNCHANGED <<message_id, accumulated_text, last_update_time, last_sent_length,
                   sh_config, phase, caller_vars, other_vars>>

\* a caller that stores the reply whenever finalize has ended
AfterFinalizeAlwaysStores(raised, text) ==
    /\ phase' = "finished"
    /\ memory' = Append(memory, [role |-> "assistant", content |-> text])
    /\ UNCHANGED notices

\* _process_streaming_response after a finalize that returned or raised, the
\* handler's text being `text`: in the try block the reply is stored, or the
\* exception taken to the except branch; in the except branch whatever
\* finalize did is passed over and the error notice is sent
AfterFinalize(raised, text) ==
    IF phase = "streaming"
    THEN IF raised
         THEN /\ phase' = "finalize_failed"
              /\ UNCHANGED caller_vars
         ELSE /\ phase' = "finished"
              /\ memory' = Append(memory, [role |-> "assistant", content |-> text])
              /\ UNCHANGED notices
    ELSE /\ phase' = "finished"
         /\ notices' = notices + 1
         /\ UNCHANGED memory

\* the `async for` over stream_response raises: the caller is in its except
\* branch
StreamingFails ==
    /\ phase = "streaming"
    /\ OperationAwaited
    /\ phase' = "stream_failed"
    /\ UNCHANGED <<message_id, accumulated_text, last_update_time, last_sent_length,
                   sh_config, now, h_pc, retry_after, ops, edits, transport,
                   caller_vars, other_vars>>

\* finalize() up to the await on its first edit; called after the stream
\* ended, and once more from the except branch of the caller
Finalize ==
    /\ phase \in {"streaming", "start_failed", "stream_failed", "finalize_failed"}
    /\ OperationAwaited
    /\ IF message_id = None
       THEN /\ ops' = Append(ops, Operation("finalize", "", "returned"))
            /\ AfterFinalize(FALSE, accumulated_text)
            /\ edits' = <<>>
            /\ UNCHANGED <<accumulated_text, h_pc>>
       ELSE LET text == IF accumulated_text = "" THEN NoResponseText ELSE accumulated_text
            IN /\ accumulated_text' = text
               /\ ops' = Append(ops, Operation("finalize", "", "pending"))
               /\ edits' = <<Edit(text, DefaultParseMode, TRUE, now)>>
               /\ h_pc' = "final_edit"
               /\ UNCHANGED <<phase, caller_vars>>
    /\ UNCHANGED <<message_id, last_update_time, last_sent_length, sh_config, now,
                   retry_after, transport, other_vars>>

\* the first edit of finalize is answered
FinalAnswer(ans) ==
    /\ h_pc = "final_edit"
    /\ transport' = EditAnswered(ans)
    /\ IF FinalizeCatches(ans) /\ FinalizeFallsBack(ans)
       THEN /\ edits' = Append(Answered(ans), Edit(accumulated_text, None, TRUE, now))
            /\ h_pc' = "plain_edit"
            /\ UNCHANGED <<ops, phase, caller_vars>>
       ELSE /\ edits' = Answered(ans)
            /\ h_pc' = "idle"
            /\ IF ans.exc = "none" \/ FinalizeCatches(ans)
               THEN /\ OperationEnds("returned", ans)
                    /\ AfterFinalize(FALSE, GetText)
               ELSE /\ OperationEnds("raised", ans)
                    /\ AfterFinalize(TRUE, GetText)
    /\ UNCHANGED <<message_id, accumulated_text, last_update_time, last_sent_length,
                   sh_config, now, retry_after, other_vars>>

\* the plain-text edit of finalize is answered; `except Exception` takes all
PlainAnswer(ans) ==
    /\ h_pc = "plain_edit"
    /\ edits' = Answered(ans)
    /\ transport' = EditAnswered(ans)
    /\ h_pc' = "idle"
    /\ OperationEnds("returned", ans)
    /\ AfterFinalize(FALSE, GetText)
    /\ UNCHANGED <<message_id, accumulated_text, last_update_time, last_sent_length,
                   sh_config, now, retry_after, other_vars>>

\* reset
Reset ==
    /\ phase = "finished"
    /\ h_pc = "idle"
    /\ message_id' = None
    /\ accumulated_text' = ""
    /\ last_update_time' = 0
    /\ last_sent_length' = 0
    /\ phase' = "constructed"
    /\ ops' = <<>>
    /\ edits' = <<>>
    /\ transport' = NoTransport
    /\ memory' = <<>>
    /\ notices' = 0
    /\ UNCHANGED <<sh_config, now, h_pc, retry_after, other_vars>>

(***************************************************************************)
(* The provider adapters (providers/openai_provider.py, deepseek_provider, *)
(* anthropic_provider), driven directly: complete / stream on a history,   *)
(* up to the vendor call, and how a failure of that call is reported.      *)
(***************************************************************************)
\* a Python value that is a str, and one that is a list
StrContent(text) == [type |-> "str", value |-> text]
ListContent(blocks) == [type |-> "list", value |-> blocks]

\* truthiness of an Optional[str]
Truthy(text) == text # None /\ text # ""

RECURSIVE JsonPairs(_)
JsonPairs(d) ==
    IF d = <<>> THEN ""
    ELSE "\"" \o d[1][1] \o "\": \"" \o d[1][2] \o "\""
         \o (IF Len(d) > 1 THEN ", " ELSE "") \o JsonPairs(Tail(d))

\* json.dumps(d) of a dict of strings
JsonDumpsCompact(d) == "{" \o JsonPairs(d) \o "}"

\* Message.to_openai_format
ToOpenAIFormat(msg) ==
    LET calls_of == [i \in 1..Len(msg.tool_calls) |->
                        [id |-> msg.tool_calls[i].id,
                         type |-> "function",
                         function |-> [name |-> msg.tool_calls[i].name,
                                       arguments |-> JsonDumpsCompact(msg.tool_calls[i].arguments)]]]
    IN IF msg.tool_calls # <<>> /\ Truthy(msg.tool_call_id)
       THEN [role |-> msg.role, content |-> msg.content, tool_calls |-> calls_of,
             tool_call_id |-> msg.tool_call_id]
       ELSE IF msg.tool_calls # <<>>
            THEN [role |-> msg.role, content |-> msg.content, tool_calls |-> calls_of]
            ELSE IF Truthy(msg.tool_call_id)
                 THEN [role |-> msg.role, content |-> msg.content,
                       tool_call_id |-> msg.tool_call_id]
                 ELSE [role |-> msg.role, content |-> msg.content]

\* Message.to_anthropic_format: a tool message becomes a user message with
\* one tool_result block; of any other message the role and the content
\* are kept, nothing else
ToAnthropicFormat(msg) ==
    IF msg.role = "tool"
    THEN [role |-> "user",
          content |-> ListContent(<<[type |-> "tool_result",
                                     tool_use_id |-> msg.tool_call_id,
                                     content |-> msg.content]>>)]
    ELSE [role |-> msg.role, content |-> StrContent(msg.content)]

\* OpenAIProvider._convert_messages
ConvertMessagesOpenAI(messages) ==
    [i \in 1..Len(messages) |-> ToOpenAIFormat(messages[i])]

\* AnthropicProvider._convert_messages
ConvertMessagesAnthropic(messages) ==
    [i \in 1..Len(messages) |-> ToAnthropicFormat(messages[i])]

RECURSIVE ExtractFromFirst(_, _, _, _)
\* an extraction that keeps the first system message it meets
ExtractFromFirst(messages, i, system, filtered) ==
    IF i > Len(messages)
    THEN [system |-> system, filtered |-> filtered]
    ELSE IF messages[i].role = "system"
         THEN ExtractFromFirst(messages, i + 1,
                               IF system = None THEN messages[i].content ELSE system,
                               filtered)
         ELSE ExtractFromFirst(messages, i + 1, system, Append(filtered, messages[i]))

RECURSIVE ExtractFrom(_, _, _, _)
\* the loop of _extract_system_message from message i on
ExtractFrom(messages, i, system, filtered) ==
    IF i > Len(messages)
    THEN [system |-> system, filtered |-> filtered]
    ELSE IF messages[i].role = "system"
         THEN ExtractFrom(messages, i + 1, messages[i].content, filtered)
         ELSE ExtractFrom(messages, i + 1, system, Append(filtered, messages[i]))

\* AnthropicProvider._extract_system_message
ExtractSystemMessage(messages) == ExtractFrom(messages, 1, None, <<>>)

\* request arguments that never carry a system parameter
AnthropicKwargsNoSystem(system, filtered) ==
    [messages |-> ConvertMessagesAnthropic(filtered)]

\* the kwargs of AnthropicProvider.complete / stream for a call without tools
AnthropicKwargs(system, filtered) ==
    IF Truthy(system)
    THEN [messages |-> ConvertMessagesAnthropic(filtered), system |-> system]
    ELSE [messages |-> ConvertMessagesAnthropic(filtered)]

\* the kwargs of OpenAIProvider.complete / stream for a call without tools
OpenAIKwargs(method, messages) ==
    IF method = "stream"
    THEN [messages |-> ConvertMessagesOpenAI(messages), stream |-> TRUE]
    ELSE [messages |-> ConvertMessagesOpenAI(messages)]

\* the except clauses of OpenAIProvider.complete / stream, which
\* DeepSeekProvider inherits
OpenAIError(exc) ==
    IF exc.class = "httpx.TimeoutException"
    THEN "AI request timed out. Please try again."
    ELSE IF exc.class = "httpx.ConnectError"
         THEN "Could not connect to AI service."
         ELSE "AI service error: " \o exc.text

\* the except clause of AnthropicProvider.complete / stream
AnthropicError(exc) == "AI service error: " \o exc.text

\* the RuntimeError an adapter raises for the exception of its vendor call
AdapterError(adapter, exc) ==
    IF adapter = "anthropic" THEN AnthropicError(exc) ELSE OpenAIError(exc)

\* no exception
NoException == [class |-> None, text |-> ""]

\* before the call
AdapterIdle ==
    [pc |-> "idle", system |-> None, filtered |-> <<>>, kwargs |-> [messages |-> <<>>],
     exception |-> NoException, error |-> None]

rest_of_adapter == <<svc_vars, ex_vars, sh_vars, log_vars, registry, registry_log,
                     fn_vars, wl_vars, pv_vars>>

\* complete / stream up to the await on the vendor client
AdapterCall ==
    /\ adapter_result.pc = "idle"
    /\ LET messages == adapter_request.messages
           extracted == ExtractSystemMessage(messages)
       IN adapter_result' =
              IF adapter_request.adapter = "anthropic"
              THEN [adapter_result EXCEPT
                        !.pc = "vendor",
                        !.system = extracted.system,
                        !.filtered = extracted.filtered,
                        !.kwargs = AnthropicKwargs(extracted.system, extracted.filtered)]
              ELSE [adapter_result EXCEPT
                        !.pc = "vendor",
                        !.kwargs = OpenAIKwargs(adapter_request.method, messages)]
    /\ UNCHANGED <<adapter_request, rest_of_adapter>>

\* the vendor call raises `exc`: the adapter raises its RuntimeError
VendorRaises(exc) ==
    /\ adapter_result.pc = "vendor"
    /\ adapter_result' = [adapter_result EXCEPT
                              !.pc = "raised",
                              !.exception = exc,
                              !.error = AdapterError(adapter_request.adapter, exc)]
    /\ UNCHANGED <<adapter_request, rest_of_adapter>>

\* the vendor call answers: the adapter returns (complete) or yields its
\* chunks to the end (stream)
VendorReturns ==
    /\ adapter_result.pc = "vendor"
    /\ adapter_result' = [adapter_result EXCEPT !.pc = "returned"]
    /\ UNCHANGED <<adapter_request, rest_of_adapter>>

(***************************************************************************)
(* ToolRegistry (tools/registry.py) driven directly: _tools is a dict from *)
(* tool name to Tool, here the sequence of its items in insertion order.   *)
(***************************************************************************)
\* d[k] = v on a dict that may get a second item for a key it has
DictSetAppend(d, k, v) == Append(d, <<k, v>>)

\* d[k] = v: the item of k is replaced where it is, a new key goes last
DictSet(d, k, v) ==
    IF k \in Keys(d)
    THEN [i \in 1..Len(d) |-> IF d[i][1] = k THEN <<k, v>> ELSE d[i]]
    ELSE Append(d, <<k, v>>)

\* d.pop(k, None), for the dict that is left
DictPop(d, k) == SelectSeq(d, LAMBDA item : item[1] # k)

\* a Tool, by what tells two tools of one name apart
Tool(name, description) == [name |-> name, description |-> description]

\* the None that get returns
NoTool == Tool(None, None)

\* ToolRegistry.get
RegistryGet(reg, name) == IF name \in Keys(reg) THEN Get(reg, name) ELSE NoTool

\* ToolRegistry.__contains__
RegistryContains(reg, name) == name \in Keys(reg)

rest_of_registry == <<svc_vars, ex_vars, sh_vars, log_vars, adapter_request,
                      adapter_result, fn_vars, wl_vars, pv_vars>>

\* ToolRegistry.register
Register(tool) ==
    /\ Len(registry_log) < MaxRegistryOps
    /\ registry' = DictSet(registry, tool.name, tool)
    /\ registry_log' = Append(registry_log,
                              [op |-> "register", name |-> tool.name, tool |-> tool])
    /\ UNCHANGED rest_of_registry

\* ToolRegistry.unregister
Unregister(name) ==
    /\ Len(registry_log) < MaxRegistryOps
    /\ registry' = DictPop(registry, name)
    /\ registry_log' = Append(registry_log,
                              [op |-> "unregister", name |-> name, tool |-> NoTool])
    /\ UNCHANGED rest_of_registry

(***************************************************************************)
(* JSON texts.  A text that is parsed is kept as the sequence of its       *)
(* characters; a JSON value is the tagged record [t, v] with t one of      *)
(* "str" (v the characters), "int", "list" (v the elements) and "dict"     *)
(* (v the (key, value) items, the keys being character sequences).         *)
(***************************************************************************)
JStr(cs) == [t |-> "str", v |-> cs]

JInt(n) == [t |-> "int", v |-> n]

JList(items) == [t |-> "list", v |-> items]

JDict(items) == [t |-> "dict", v |-> items]

DigitChars == <<"0", "1", "2", "3", "4", "5", "6", "7", "8", "9">>

Whitespace == {" ", "\n"}

\* the characters of a string written without escapes
EscapeCharVerbatim(c) == <<c>>

\* json.dumps of one character of a string
EscapeChar(c) ==
    IF c = "\"" THEN <<"\\", "\"">>
    ELSE IF c = "\\" THEN <<"\\", "\\">>
    ELSE IF c = "\n" THEN <<"\\", "n">>
    ELSE <<c>>

RECURSIVE EscapeChars(_)
EscapeChars(cs) ==
    IF cs = <<>> THEN <<>> ELSE EscapeChar(Head(cs)) \o EscapeChars(Tail(cs))

EncodeString(cs) == <<"\"">> \o EscapeChars(cs) \o <<"\"">>

RECURSIVE Digits(_)
Digits(n) ==
    IF n < 10 THEN <<DigitChars[n + 1]>>
    ELSE Digits(n \div 10) \o <<DigitChars[(n % 10) + 1]>>

Spaces(n) == [i \in 1..n |-> " "]

RECURSIVE Encode(_, _, _)
RECURSIVE EncodeItems(_, _, _, _)
\* the items of a list or dict, one to a line, at nesting depth `level`
EncodeItems(items, is_dict, indent, level) ==
    LET item == Head(items)
        text == IF is_dict
                THEN EncodeString(item[1]) \o <<":", " ">> \o Encode(item[2], indent, level)
                ELSE Encode(item, indent, level)
    IN  Spaces(indent * level) \o text
        \o (IF Len(items) > 1
            THEN <<",", "\n">> \o EncodeItems(Tail(items), is_dict, indent, level)
            ELSE <<>>)

\* json.dumps(value, indent=indent), the value being at nesting depth `level`
Encode(value, indent, level) ==
    CASE value.t = "str" -> EncodeString(value.v)
      [] value.t = "int" -> Digits(value.v)
      [] OTHER ->
            LET open == IF value.t = "dict" THEN "{" ELSE "["
                close == IF value.t = "dict" THEN "}" ELSE "]"
            IN  IF value.v = <<>> THEN <<open, close>>
                ELSE <<open, "\n">>
                     \o EncodeItems(value.v, value.t = "dict", indent, level + 1)
                     \o <<"\n">> \o Spaces(indent * level) \o <<close>>

JsonDumpsChars(value, indent) == Encode(value, indent, 0)

\* json.loads raised JSONDecodeError
DecodeError == [ok |-> FALSE, value |-> JInt(0), next |-> 0]

Decoded(value, next) == [ok |-> TRUE, value |-> value, next |-> next]

RECURSIVE SkipWhitespace(_, _)
SkipWhitespace(cs, i) ==
    IF i <= Len(cs) /\ cs[i] \in Whitespace THEN SkipWhitespace(cs, i + 1) ELSE i

\* the rest of a string whose opening quote has been read
RECURSIVE ParseString(_, _, _)
ParseString(cs, i, acc) ==
    IF i > Len(cs) \/ cs[i] = "\n" THEN DecodeError
    ELSE IF cs[i] = "\"" THEN Decoded(JStr(acc), i + 1)
    ELSE IF cs[i] # "\\" THEN ParseString(cs, i + 1, Append(acc, cs[i]))
    ELSE IF i + 1 > Len(cs) THEN DecodeError
    ELSE IF cs[i + 1] \in {"\"", "\\"} THEN ParseString(cs, i + 2, Append(acc, cs[i + 1]))
    ELSE IF cs[i + 1] = "n" THEN ParseString(cs, i + 2, Append(acc, "\n"))
    ELSE DecodeError

IsDigit(c) == \E d \in 1..10 : DigitChars[d] = c

DigitValue(c) == (CHOOSE d \in 1..10 : DigitChars[d] = c) - 1

\* the rest of a number of which the digits worth n have been read
RECURSIVE ParseInt(_, _, _)
ParseInt(cs, i, n) ==
    IF i <= Len(cs) /\ IsDigit(cs[i])
    THEN ParseInt(cs, i + 1, 10 * n + DigitValue(cs[i]))
    ELSE Decoded(JInt(n), i)

\* a dict item with a key that is already there replaces its value
PutItem(items, key, value) ==
    IF \E i \in 1..Len(items) : items[i][1] = key
    THEN [i \in 1..Len(items) |-> IF items[i][1] = key THEN <<key, value>> ELSE items[i]]
    ELSE Append(items, <<key, value>>)

RECURSIVE ParseValue(_, _)
RECURSIVE ParseItems(_, _, _, _)
\* the rest of a list or dict whose items `acc` have been read; `first` is
\* true after the opening bracket, false after a comma
ParseItems(cs, i, acc, is_dict) ==
    LET close == IF is_dict THEN "}" ELSE "]"
        first == acc.first
        j == SkipWhitespace(cs, i)
    IN  IF j > Len(cs) THEN DecodeError
        ELSE IF cs[j] = close
        THEN IF first THEN Decoded([t |-> IF is_dict THEN "dict" ELSE "list", v |-> acc.items],
                                   j + 1)
             ELSE DecodeError
        ELSE LET key == IF is_dict /\ cs[j] = "\"" THEN ParseString(cs, j + 1, <<>>)
                        ELSE DecodeError
                 colon == IF key.ok THEN SkipWhitespace(cs, key.next) ELSE 0
                 item == IF ~is_dict THEN ParseValue(cs, j)
                         ELSE IF key.ok /\ colon <= Len(cs) /\ cs[colon] = ":"
                         THEN ParseValue(cs, colon + 1)
                         ELSE DecodeError
                 k == IF item.ok THEN SkipWhitespace(cs, item.next) ELSE 0
                 items == IF is_dict THEN PutItem(acc.items, key.value.v, item.value)
                          ELSE Append(acc.items, item.value)
             IN  IF ~item.ok \/ k > Len(cs) THEN DecodeError
                 ELSE IF cs[k] = ","
                 THEN ParseItems(cs, k + 1, [first |-> FALSE, items |-> items], is_dict)
                 ELSE IF cs[k] = close
                 THEN Decoded([t |-> IF is_dict THEN "dict" ELSE "list", v |-> items], k + 1)
                 ELSE DecodeError

ParseValue(cs, i) ==
    LET j == SkipWhitespace(cs, i)
    IN  IF j > Len(cs) THEN DecodeError
        ELSE IF cs[j] = "\"" THEN ParseString(cs, j + 1, <<>>)
        ELSE IF cs[j] = "{" THEN ParseItems(cs, j + 1, [first |-> TRUE, items |-> <<>>], TRUE)
        ELSE IF cs[j] = "[" THEN ParseItems(cs, j + 1, [first |-> TRUE, items |-> <<>>], FALSE)
        ELSE IF cs[j] = "0" /\ j < Len(cs) /\ IsDigit(cs[j + 1]) THEN DecodeError
        ELSE IF IsDigit(cs[j]) THEN ParseInt(cs, j, 0)
        ELSE DecodeError

\* json.loads(text): the value, or JSONDecodeError
JsonLoads(cs) ==
    LET parsed == ParseValue(cs, 1)
    IN  IF parsed.ok /\ SkipWhitespace(cs, parsed.next) > Len(cs)
        THEN [ok |-> TRUE, value |-> parsed.value]
        ELSE [ok |-> FALSE, value |-> JInt(0)]

\* str(None) and "Error: " as characters; an error that is None, where
\* errors are character sequences
NoneChars == <<"N", "o", "n", "e">>

NoError == <<None>>

ErrorPrefixChars == <<"E", "r", "r", "o", "r", ":", " ">>

\* ToolResult.to_message_content, the text as characters
ToMessageContentChars(r) ==
    IF r.success
    THEN IF r.result.t = "dict" THEN JsonDumpsChars(r.result, 2) ELSE NoneChars
    ELSE ErrorPrefixChars \o (IF r.error = NoError THEN NoneChars ELSE r.error)

\* result.to_message_content() called on its own
ToMessageContentCall ==
    /\ ~call_result.returned
    /\ call_result' = [returned |-> TRUE, value |-> ToMessageContentChars(call_args)]
    /\ UNCHANGED <<svc_vars, ex_vars, sh_vars, log_vars, adapter_request, adapter_result,
                   registry, registry_log, call_args, wl_vars, pv_vars>>
(***************************************************************************)
(* _split_message (bot/handlers.py), the text as characters.  A step is    *)
(* the call up to the loop, or one iteration of the loop.                  *)
(***************************************************************************)
\* text.rfind(c, 0, end): the highest index below `end`, counted from 0, or -1
Rfind(text, c, end) ==
    LET hits == {i \in 0..(Len(text) - 1) : i < end /\ text[i + 1] = c}
    IN  IF hits = {} THEN -1 ELSE CHOOSE i \in hits : \A j \in hits : j <= i

\* a split point looked for in the whole text
SplitAtAnywhere(text, max_length) ==
    LET newline_pos == Rfind(text, "\n", Len(text))
    IN  IF newline_pos > max_length \div 2 THEN newline_pos + 1 ELSE max_length

\* split_at of one iteration
SplitAt(text, max_length) ==
    LET newline_pos == Rfind(text, "\n", max_length)
        space_pos == Rfind(text, " ", max_length)
    IN  IF newline_pos > max_length \div 2 THEN newline_pos + 1
        ELSE IF space_pos > max_length \div 2 THEN space_pos + 1
        ELSE max_length

rest_of_call == <<svc_vars, ex_vars, sh_vars, log_vars, adapter_request, adapter_result,
                  registry, registry_log, call_args, wl_vars, pv_vars>>

\* _split_message(text, max_length) up to the first test of the loop
SplitMessageCall ==
    /\ call_result.pc = "idle"
    /\ call_result' =
          IF Len(call_args.text) <= call_args.max_length
          THEN [pc |-> "returned", text |-> call_args.text, chunks |-> <<call_args.text>>]
          ELSE [pc |-> "loop", text |-> call_args.text, chunks |-> <<>>]
    /\ UNCHANGED rest_of_call

\* one iteration of `while text`
SplitMessageLoop ==
    /\ call_result.pc = "loop"
    /\ LET text == call_result.text
           max_length == call_args.max_length
           split_at == SplitAt(text, max_length)
       IN  call_result' =
              IF text = <<>>
              THEN [call_result EXCEPT !.pc = "returned"]
              ELSE IF Len(text) <= max_length
              THEN [call_result EXCEPT !.pc = "returned", !.chunks = Append(@, text)]
              ELSE [call_result EXCEPT
                       !.chunks = Append(@, SubSeq(text, 1, split_at)),
                       !.text = SubSeq(text, split_at + 1, Len(text))]
    /\ UNCHANGED rest_of_call

(***************************************************************************)
(* logta: the work log of one forum topic (logta/services/worklog_memory)  *)
(* and the handlers that act on it (logta/handlers.py).  An entry is its   *)
(* text; a handler runs from the update it gets to its end.                *)
(***************************************************************************)
\* WorkLogState
Active == "active"

PendingConfirmation == "pending_confirmation"

\* thread_id not in self._worklogs
NoSession == [exists |-> FALSE, state |-> Active, entries |-> <<>>]

\* WorkLogSession(title, chat_id, created_at)
WorkLogSession == [exists |-> TRUE, state |-> Active, entries |-> <<>>]

NothingShown == [previewed |-> FALSE, preview |-> <<>>, summarized |-> FALSE, summary |-> <<>>]

rest_of_worklog == <<svc_vars, ex_vars, sh_vars, log_vars, adapter_request, adapter_result,
                     registry, registry_log, fn_vars, pv_vars>>

\* text.lower() of the messages sent to the topic
LowerText(text) == IF text = "Y" THEN "y" ELSE text

\* WorkLogMemory.remove_entry: the session after entries.pop(index - 1)
RemoveEntry(session, index) ==
    IF ~session.exists \/ index < 1 \/ index > Len(session.entries)
    THEN session
    ELSE [session EXCEPT !.entries =
             SubSeq(@, 1, index - 1) \o SubSeq(@, index + 1, Len(@))]

\* WorkLogMemory.edit_entry
EditEntry(session, index, new_text) ==
    IF ~session.exists \/ index < 1 \/ index > Len(session.entries)
    THEN session
    ELSE [session EXCEPT !.entries[index] = new_text]

\* worklog_command: the topic is created and start_worklog called
WorklogCommand ==
    /\ ~worklog.exists
    /\ worklog' = WorkLogSession
    /\ worklog_log' = NothingShown
    /\ UNCHANGED rest_of_worklog

\* _generate_worklog_summary: get_formatted_log is None when there is no
\* entry; otherwise the entries are summarized and the session ended
GenerateWorklogSummary ==
    IF worklog.entries = <<>>
    THEN UNCHANGED <<worklog, worklog_log>>
    ELSE /\ worklog_log' = [worklog_log EXCEPT !.summarized = TRUE,
                                               !.summary = worklog.entries]
         /\ worklog' = NoSession

\* handle_worklog_message on a text message sent to the topic
HandleWorklogMessage(text) ==
    /\ worklog.exists
    /\ IF worklog.state = PendingConfirmation
       THEN IF LowerText(text) \in {"yes", "y", "confirm"}
            THEN GenerateWorklogSummary
            ELSE /\ worklog' = [worklog EXCEPT !.state = Active]
                 /\ UNCHANGED worklog_log
       ELSE /\ Len(worklog.entries) < MaxEntries
            /\ worklog' = [worklog EXCEPT !.entries = Append(@, text)]
            /\ UNCHANGED worklog_log
    /\ UNCHANGED rest_of_worklog

\* remove_command with context.args[0] = index
RemoveCommand(index) ==
    /\ worklog.exists
    /\ worklog' = RemoveEntry(worklog, index)
    /\ UNCHANGED worklog_log
    /\ UNCHANGED rest_of_worklog

\* edit_command with context.args = [index, new_text]
EditCommand(index, new_text) ==
    /\ worklog.exists
    /\ worklog' = EditEntry(worklog, index, new_text)
    /\ UNCHANGED worklog_log
    /\ UNCHANGED rest_of_worklog

\* done_command: the preview of the entries is sent and the session set to
\* pending confirmation
DoneCommand ==
    /\ worklog.exists
    /\ worklog.entries # <<>>
    /\ worklog' = [worklog EXCEPT !.state = PendingConfirmation]
    /\ worklog_log' = [worklog_log EXCEPT !.previewed = TRUE, !.preview = worklog.entries]
    /\ UNCHANGED rest_of_worklog

\* close_command: end_worklog
CloseCommand ==
    /\ worklog.exists
    /\ worklog' = NoSession
    /\ UNCHANGED worklog_log
    /\ UNCHANGED rest_of_worklog

(***************************************************************************)
(* The stream generators of the provider adapters, driven by the events    *)
(* of the vendor SDK stream.  Argument fragments are character sequences.  *)
(***************************************************************************)
rest_of_stream == <<svc_vars, ex_vars, sh_vars, log_vars, adapter_request, adapter_result,
                    registry, registry_log, fn_vars, wl_vars>>

\* the fragment put in front of what was accumulated
AppendFragmentInFront(arguments, fragment) == fragment \o arguments

\* tc_data["arguments"] += fragment
AppendFragment(arguments, fragment) == arguments \o fragment

\* json.loads(arguments), or {} on json.JSONDecodeError
DecodeArguments(arguments) ==
    LET decoded == JsonLoads(arguments)
    IN  IF decoded.ok THEN decoded.value ELSE JDict(<<>>)

\* OpenAIProvider.stream: one tool call delta of a chunk
AccumulateDelta(acc, tc) ==
    LET known == IF tc.index \in Keys(acc) THEN acc
                 ELSE Append(acc, <<tc.index,
                                    [id |-> IF tc.id = None THEN "" ELSE tc.id,
                                     name |-> tc.name,
                                     arguments |-> <<>>]>>)
    IN  IF tc.arguments = <<>> THEN known
        ELSE [i \in 1..Len(known) |->
                 IF known[i][1] = tc.index
                 THEN <<tc.index, [known[i][2] EXCEPT
                                      !.arguments = AppendFragment(@, tc.arguments)]>>
                 ELSE known[i]]

\* OpenAIProvider.stream: `for tc in delta.tool_calls`
RECURSIVE AccumulateDeltas(_, _)
AccumulateDeltas(acc, tcs) ==
    IF tcs = <<>> THEN acc
    ELSE AccumulateDeltas(AccumulateDelta(acc, Head(tcs)), Tail(tcs))

\* OpenAIProvider.stream: the ToolCalls of the chunk that finishes with "tool_calls"
ParsedToolCalls(acc) ==
    [i \in 1..Len(acc) |->
        ToolCall(acc[i][2].id, acc[i][2].name, DecodeArguments(acc[i][2].arguments))]

\* a StreamChunk yielded, with the number of vendor events delivered by then
Yielded(chunk, at) == [chunk |-> chunk, at |-> at]

\* OpenAIProvider.stream: the vendor stream delivers a chunk
OpenAIStreamNext(chunk) ==
    /\ stream_locals.pc = "streaming"
    /\ Len(vendor_events) < MaxEvents
    /\ vendor_events' = Append(vendor_events, chunk)
    /\ IF ~chunk.choices
       THEN UNCHANGED <<stream_locals, stream_chunks>>
       ELSE LET acc == AccumulateDeltas(stream_locals.accumulated_tool_calls,
                                        chunk.tool_calls)
                content == IF chunk.content = None THEN "" ELSE chunk.content
                tcs == IF chunk.finish_reason = "tool_calls"
                       THEN ParsedToolCalls(acc) ELSE <<>>
            IN  /\ stream_locals' = [stream_locals EXCEPT !.accumulated_tool_calls = acc]
                /\ stream_chunks' =
                      Append(stream_chunks,
                             Yielded(StreamChunk(content, tcs, chunk.finish_reason,
                                                 chunk.finish_reason # None),
                                     Len(vendor_events) + 1))
    /\ UNCHANGED rest_of_stream

\* OpenAIProvider.stream: the vendor stream is exhausted
OpenAIStreamEnd ==
    /\ stream_locals.pc = "streaming"
    /\ stream_locals' = [stream_locals EXCEPT !.pc = "returned"]
    /\ UNCHANGED <<vendor_events, stream_chunks>>
    /\ UNCHANGED rest_of_stream

\* an event of the Anthropic SDK stream
StreamEvent(type, block, text, partial_json) ==
    [type |-> type, block |-> block, text |-> text, partial_json |-> partial_json]

NoBlock == [type |-> None, id |-> None, name |-> None]

\* current_tool_call is None
NoCurrentToolCall == [set |-> FALSE, id |-> None, name |-> None, arguments |-> <<>>]

\* the ToolCall chunk yielded as soon as the block starts
BlockStartEager(block) ==
    /\ stream_locals' = stream_locals
    /\ stream_chunks' =
          IF block.type = "tool_use"
          THEN Append(stream_chunks,
                      Yielded(StreamChunk("", <<ToolCall(block.id, block.name, JDict(<<>>))>>,
                                          None, FALSE),
                              Len(vendor_events) + 1))
          ELSE stream_chunks

\* AnthropicProvider.stream: content_block_start
BlockStart(block) ==
    /\ stream_locals' =
          IF block.type = "tool_use"
          THEN [stream_locals EXCEPT !.current_tool_call =
                   [set |-> TRUE, id |-> block.id, name |-> block.name, arguments |-> <<>>]]
          ELSE stream_locals
    /\ UNCHANGED stream_chunks

\* AnthropicProvider.stream: content_block_delta with delta.text
TextDelta(text) ==
    /\ stream_chunks' = Append(stream_chunks,
                               Yielded(StreamChunk(text, <<>>, None, FALSE),
                                       Len(vendor_events) + 1))
    /\ UNCHANGED stream_locals

\* AnthropicProvider.stream: content_block_delta with delta.partial_json
PartialJsonDelta(partial_json) ==
    /\ stream_locals' =
          IF stream_locals.current_tool_call.set
          THEN [stream_locals EXCEPT !.current_tool_call.arguments =
                   AppendFragment(@, partial_json)]
          ELSE stream_locals
    /\ UNCHANGED stream_chunks

\* AnthropicProvider.stream: content_block_stop
BlockStop ==
    LET current == stream_locals.current_tool_call
    IN  IF current.set
        THEN /\ stream_chunks' =
                   Append(stream_chunks,
                          Yielded(StreamChunk("", <<ToolCall(current.id, current.name,
                                                             DecodeArguments(current.arguments))>>,
                                              None, FALSE),
                                  Len(vendor_events) + 1))
             /\ stream_locals' = [stream_locals EXCEPT !.current_tool_call = NoCurrentToolCall]
        ELSE UNCHANGED <<stream_locals, stream_chunks>>

\* AnthropicProvider.stream: message_stop
MessageStop ==
    /\ stream_chunks' = Append(stream_chunks,
                               Yielded(StreamChunk("", <<>>, "end_turn", TRUE),
                                       Len(vendor_events) + 1))
    /\ UNCHANGED stream_locals

\* what the Anthropic event protocol allows next: blocks do not nest, a
\* delta belongs to the open block and is of its kind (partial JSON in a
\* tool_use block, text in a text block), the message stops when no block
\* is open, and nothing follows message_stop
EventsOfType(type) == {i \in 1..Len(vendor_events) : vendor_events[i].type = type}

BlockOpen ==
    Cardinality(EventsOfType("content_block_start"))
        > Cardinality(EventsOfType("content_block_stop"))

LastStart ==
    CHOOSE i \in EventsOfType("content_block_start") :
        \A j \in EventsOfType("content_block_start") : j <= i

MessageStopped == EventsOfType("message_stop") # {}

ProtocolAllows(event) ==
    /\ ~MessageStopped
    /\ CASE event.type = "content_block_start" ->
                ~BlockOpen /\ Cardinality(EventsOfType("content_block_start")) < MaxBlocks
         [] event.type = "content_block_delta" ->
                /\ BlockOpen
                /\ Len(vendor_events) - LastStart < MaxFragments
                /\ (vendor_events[LastStart].block.type = "tool_use") = (event.text = None)
         [] event.type = "content_block_stop" -> BlockOpen
         [] OTHER -> ~BlockOpen

\* `async for event in stream`: the SDK stream delivers the event
Delivered(event) ==
    /\ stream_locals.pc = "streaming"
    /\ ProtocolAllows(event)
    /\ vendor_events' = Append(vendor_events, event)
    /\ UNCHANGED rest_of_stream

OnContentBlockStart(block) ==
    /\ Delivered(StreamEvent("content_block_start", block, None, <<>>))
    /\ BlockStart(block)

OnTextDelta(text) ==
    /\ Delivered(StreamEvent("content_block_delta", NoBlock, text, <<>>))
    /\ TextDelta(text)

OnPartialJsonDelta(partial_json) ==
    /\ Delivered(StreamEvent("content_block_delta", NoBlock, None, partial_json))
    /\ PartialJsonDelta(partial_json)

OnContentBlockStop ==
    /\ Delivered(StreamEvent("content_block_stop", NoBlock, None, <<>>))
    /\ BlockStop

OnMessageStop ==
    /\ Delivered(StreamEvent("message_stop", NoBlock, None, <<>>))
    /\ MessageStop

\* the SDK stream is exhausted after message_stop
AnthropicStreamEnd ==
    /\ stream_locals.pc = "streaming"
    /\ MessageStopped
    /\ stream_locals' = [stream_locals EXCEPT !.pc = "returned"]
    /\ UNCHANGED <<vendor_events, stream_chunks>>
    /\ UNCHANGED rest_of_stream

(***************************************************************************)
(* The parts that a specification leaves alone.                            *)
(***************************************************************************)
NoAdapter ==
    /\ adapter_request = None
    /\ adapter_result = None

NoRegistry ==
    /\ registry = <<>>
    /\ registry_log = <<>>

NoCall ==
    /\ call_args = None
    /\ call_result = None

NoWorklog ==
    /\ worklog = None
    /\ worklog_log = None

NoProviderStream ==
    /\ vendor_events = <<>>
    /\ stream_locals = None
    /\ stream_chunks = <<>>

NoExtras ==
    /\ NoWorklog
    /\ NoProviderStream

\* no adapter, no registry and no function is driven directly
NoLibrary ==
    /\ NoAdapter
    /\ NoRegistry
    /\ NoCall
    /\ NoExtras

(***************************************************************************)
(* Inputs                                                                  *)
(***************************************************************************)
\* the caller's message dicts; a dict may lack "content"
InputLists == { << [role |-> "system", content |-> "be brief"], [role |-> "user"] >> }

Contents == {"", "final"}

ResponseToolCalls == { <<>>, <<SearchCall>>, <<UnknownCall, EmptyArgsCall>> }

Responses == {CompletionResponse(c, tcs) : c \in Contents, tcs \in ResponseToolCalls}

\* chunks in the shapes the adapters produce: a text delta, an assembled tool
\* call, and terminal chunks with and without tool calls
Chunks ==
    { StreamChunk("Hi", <<>>, None, FALSE),
      StreamChunk("", <<SearchCall>>, None, FALSE),
      StreamChunk("", <<>>, "end_turn", TRUE),
      StreamChunk("", <<EmptyArgsCall>>, "tool_calls", TRUE) }

Registries ==
    { [attached |-> FALSE, tools |-> <<>>],
      [attached |-> TRUE, tools |-> <<>>],
      [attached |-> TRUE, tools |-> SetupTools] }

ConfiguredProviders == {"deepseek", "anthropic"}

\* AIService.__init__ on a Config and an optional ToolRegistry
Init ==
    /\ config \in [providers : {ConfiguredProviders},
                    tools_enabled : BOOLEAN,
                    max_tool_iterations : 0..MaxToolIterations]
    /\ provider \in config.providers
    /\ tool_registry \in Registries
    /\ tool_executor = RegistryTruthy(tool_registry)
    /\ pc = "idle"
    /\ input_messages = <<>>
    /\ converted_messages = <<>>
    /\ current_messages = <<>>
    /\ current_response = NoResponse
    /\ iteration = 0
    /\ accumulated_content = ""
    /\ tool_calls = <<>>
    /\ last_chunk = NoChunk
    /\ returned = None
    /\ responses = <<>>
    /\ calls = <<>>
    /\ batches = <<>>
    /\ produced = <<>>
    /\ yielded = <<>>
    /\ ex_pc = "idle"
    /\ batch = <<>>
    /\ tasks = <<>>
    /\ order = <<>>
    /\ results = <<>>
    /\ NoStreamingHandler
    /\ NoLog
    /\ NoLibrary

Next ==
    \/ \E m \in InputLists, u \in BOOLEAN : GetResponse(m, u)
    \/ \E r \in Responses : CompleteReturn(r)
    \/ \E i \in 1..Len(tasks) : TaskFinish(i)
    \/ ToolsReturn
    \/ \E r \in Responses : LoopCompleteReturn(r)
    \/ \E m \in InputLists, u \in BOOLEAN : StreamResponse(m, u)
    \/ \E c \in Chunks : StreamNext(c)
    \/ StreamResume
    \/ StreamToolsReturn
    \/ \E c \in Chunks : ContinuationNext(c)
    \/ ContinuationEnd
    \/ StreamEnd
    \/ \E n \in SwitchNames : SwitchProvider(n)
    \/ NextRequest

Spec == Init /\ [][Next]_vars

(***************************************************************************)
(* Requests against providers whose calls may fail, on a service with the  *)
(* tools attached and enabled.                                             *)
(***************************************************************************)
InitErrors ==
    /\ Init
    /\ config.tools_enabled
    /\ config.max_tool_iterations = MaxToolIterations
    /\ tool_registry = [attached |-> TRUE, tools |-> SetupTools]

NextErrors ==
    \/ \E m \in InputLists, u \in BOOLEAN : GetResponse(m, u)
    \/ \E r \in Responses : CompleteReturn(r)
    \/ \E i \in 1..Len(tasks) : TaskFinish(i)
    \/ ToolsReturn
    \/ \E r \in Responses : LoopCompleteReturn(r)
    \/ \E m \in InputLists, u \in BOOLEAN : StreamResponse(m, u)
    \/ \E c \in Chunks : StreamNext(c)
    \/ StreamResume
    \/ StreamToolsReturn
    \/ \E c \in Chunks : ContinuationNext(c)
    \/ ContinuationEnd
    \/ StreamEnd
    \/ \E e \in ProviderErrors : CompleteRaises(e)
    \/ \E e \in ProviderErrors : StreamRaises(e)
    \/ NextRequest

SpecErrors == InitErrors /\ [][NextErrors]_vars

(***************************************************************************)
(* get_response requests under the scheduling of the asyncio event loop:   *)
(* an awaited provider call or tool coroutine completes, and the coroutine *)
(* awaiting it is resumed.                                                 *)
(***************************************************************************)
GetStep ==
    \/ \E r \in Responses : CompleteReturn(r)
    \/ \E i \in 1..Len(tasks) : TaskFinish(i)
    \/ ToolsReturn
    \/ \E r \in Responses : LoopCompleteReturn(r)

NextGet ==
    \/ \E m \in InputLists, u \in BOOLEAN : GetResponse(m, u)
    \/ GetStep
    \/ \E n \in SwitchNames : SwitchProvider(n)
    \/ NextRequest

SpecGet == Init /\ [][NextGet]_vars /\ WF_vars(GetStep)

(***************************************************************************)
(* get_response requests on a service whose registry gets its tools after  *)
(* the service was constructed.                                            *)
(***************************************************************************)
InitLate ==
    /\ Init
    /\ config.tools_enabled
    /\ config.max_tool_iterations = MaxToolIterations

NextLate ==
    \/ \E name \in {SetupTools[1]} : RegisterAttached(name)
    \/ \E m \in InputLists, u \in BOOLEAN : GetResponse(m, u)
    \/ GetStep
    \/ NextRequest

SpecLate == InitLate /\ [][NextLate]_vars

(***************************************************************************)
(* The executor driven directly: execute_all on any batch of up to         *)
(* MaxCalls calls, against a registry that holds all or some of the tools. *)
(***************************************************************************)
Batches == UNION {[1..k -> ToolCallPool] : k \in 0..MaxCalls}

ExecRegistries ==
    { [attached |-> TRUE, tools |-> SetupTools],
      [attached |-> TRUE, tools |-> <<"set_reminder">>] }

InitExec ==
    /\ config = [providers |-> ConfiguredProviders, tools_enabled |-> TRUE,
                 max_tool_iterations |-> MaxToolIterations]
    /\ provider = "deepseek"
    /\ tool_registry \in ExecRegistries
    /\ tool_executor = RegistryTruthy(tool_registry)
    /\ pc = "idle"
    /\ input_messages = <<>>
    /\ converted_messages = <<>>
    /\ current_messages = <<>>
    /\ current_response = NoResponse
    /\ iteration = 0
    /\ accumulated_content = ""
    /\ tool_calls = <<>>
    /\ last_chunk = NoChunk
    /\ returned = None
    /\ responses = <<>>
    /\ calls = <<>>
    /\ batches = <<>>
    /\ produced = <<>>
    /\ yielded = <<>>
    /\ ex_pc = "idle"
    /\ batch = <<>>
    /\ tasks = <<>>
    /\ order = <<>>
    /\ results = <<>>
    /\ NoStreamingHandler
    /\ NoLog
    /\ NoLibrary

NextExec ==
    \/ \E tcs \in Batches : ExecuteAll(tcs)
    \/ \E i \in 1..Len(tasks) : TaskFinish(i)
    \/ ExecuteAllReturn

SpecExec == InitExec /\ [][NextExec]_vars

(***************************************************************************)
(* The adapters driven directly: complete or stream on any history of up   *)
(* to MaxHistory messages, the vendor call answering or raising.           *)
(***************************************************************************)
\* no service request, no executor batch and no streaming handler
NoService ==
    /\ config = [providers |-> ConfiguredProviders, tools_enabled |-> TRUE,
                 max_tool_iterations |-> MaxToolIterations]
    /\ provider = "deepseek"
    /\ tool_registry = [attached |-> TRUE, tools |-> SetupTools]
    /\ tool_executor = RegistryTruthy(tool_registry)
    /\ pc = "idle"
    /\ input_messages = <<>>
    /\ converted_messages = <<>>
    /\ current_messages = <<>>
    /\ current_response = NoResponse
    /\ iteration = 0
    /\ accumulated_content = ""
    /\ tool_calls = <<>>
    /\ last_chunk = NoChunk
    /\ returned = None
    /\ responses = <<>>
    /\ calls = <<>>
    /\ batches = <<>>
    /\ produced = <<>>
    /\ yielded = <<>>
    /\ ex_pc = "idle"
    /\ batch = <<>>
    /\ tasks = <<>>
    /\ order = <<>>
    /\ results = <<>>
    /\ NoStreamingHandler
    /\ NoLog

\* the messages histories are made of: system messages (one of them with
\* empty content), a user message, an assistant message with a tool call
\* and the tool message that answers it
HistoryPool ==
    { Message("system", "S1", <<>>, None),
      Message("system", "S2", <<>>, None),
      Message("system", "", <<>>, None),
      Message("user", "U", <<>>, None),
      Message("assistant", "", <<SearchCall>>, None),
      Message("tool", "{}", <<>>, SearchCall.id) }

Histories == UNION {[1..k -> HistoryPool] : k \in 0..MaxHistory}

\* what the vendor client raises: the two exception classes the OpenAI
\* adapter names, and any other
VendorExceptions ==
    { [class |-> "httpx.TimeoutException", text |-> "timed out"],
      [class |-> "httpx.ConnectError", text |-> "connection refused"],
      [class |-> "Exception", text |-> "overloaded"] }

AdapterRequests ==
    [adapter : ProviderTypes, method : {"complete", "stream"}, messages : Histories]

InitAdapters ==
    /\ NoService
    /\ adapter_request \in AdapterRequests
    /\ adapter_result = AdapterIdle
    /\ NoRegistry
    /\ NoCall
    /\ NoExtras

NextAdapters ==
    \/ AdapterCall
    \/ \E exc \in VendorExceptions : VendorRaises(exc)
    \/ VendorReturns

SpecAdapters == InitAdapters /\ [][NextAdapters]_vars

(***************************************************************************)
(* The registry driven directly: up to MaxRegistryOps register and         *)
(* unregister calls, on two names with two tools each.                     *)
(***************************************************************************)
RegistryNames == {"web_search", "save_note"}

RegistryTools == {Tool(n, d) : n \in RegistryNames, d \in {"first", "second"}}

InitRegistry ==
    /\ NoService
    /\ NoLibrary

NextRegistry ==
    \/ \E t \in RegistryTools : Register(t)
    \/ \E n \in RegistryNames : Unregister(n)

SpecRegistry == InitRegistry /\ [][NextRegistry]_vars

(***************************************************************************)
(* to_message_content called on its own, on any ToolResult: a successful   *)
(* one whose result is a mapping of the kind the tools build (string keys, *)
(* values that are strings, numbers, lists and mappings of these), a       *)
(* successful one with no result, or a failed one with its error.          *)
(***************************************************************************)
TextAlphabet == {"a", "\"", "\\", ","}

Texts == UNION {[1..n -> TextAlphabet] : n \in 0..MaxText}

NestedScalars == {JStr(<<"a", "\"">>), JInt(7)}

NestedValues ==
    {JList(<<>>), JDict(<<>>)}
    \cup {JList(<<a, b>>) : a \in NestedScalars, b \in NestedScalars}
    \cup {JDict(<< <<(<<"n">>), a>> >>) : a \in NestedScalars}
    \cup {JList(<<JDict(<< <<(<<"t">>), a>> >>)>>) : a \in NestedScalars}

JsonValues == {JStr(t) : t \in Texts} \cup {JInt(n) : n \in {0, 7, 10, 42}} \cup NestedValues

JsonKeys == {<<"k">>, <<"q", "\"">>}

Mappings ==
    {<<>>}
    \cup {<< <<k, v>> >> : k \in JsonKeys, v \in JsonValues}
    \cup {m \in {<< <<k1, v1>>, <<k2, v2>> >> : k1 \in JsonKeys, k2 \in JsonKeys,
                                                v1 \in JsonValues, v2 \in JsonValues} :
                m[1][1] # m[2][1]}

ToolResults ==
    {ToolResult(TRUE, JDict(m), NoError) : m \in Mappings}
    \cup {ToolResult(TRUE, NoResult, NoError)}
    \cup {ToolResult(FALSE, NoResult, e) : e \in Texts \cup {NoError}}

NotCalled == [returned |-> FALSE, value |-> <<>>]

InitToolResult ==
    /\ NoService
    /\ NoAdapter
    /\ NoRegistry
    /\ call_args \in ToolResults
    /\ call_result = NotCalled
    /\ NoExtras

NextToolResult == ToMessageContentCall

SpecToolResult == InitToolResult /\ [][NextToolResult]_vars

(***************************************************************************)
(* _split_message called on its own, on any text of up to MaxReply         *)
(* characters and any max_length from 1 to MaxSplitLength; the event loop  *)
(* is not involved, so the call runs until it returns.                     *)
(***************************************************************************)
ReplyAlphabet == {"a", " ", "\n"}

Replies == UNION {[1..n -> ReplyAlphabet] : n \in 0..MaxReply}

InitSplit ==
    /\ NoService
    /\ NoAdapter
    /\ NoRegistry
    /\ call_args \in [text : Replies, max_length : 1..MaxSplitLength]
    /\ call_result = [pc |-> "idle", text |-> <<>>, chunks |-> <<>>]
    /\ NoExtras

NextSplit ==
    \/ SplitMessageCall
    \/ SplitMessageLoop

SpecSplit == InitSplit /\ [][NextSplit]_vars /\ WF_vars(NextSplit)

(***************************************************************************)
(* The work log of one topic: messages and commands in any order, with up  *)
(* to MaxEntries entries at a time.                                        *)
(***************************************************************************)
TopicMessages == {"yes", "Y", "review", "deploy"}

InitWorklog ==
    /\ NoService
    /\ NoAdapter
    /\ NoRegistry
    /\ NoCall
    /\ NoProviderStream
    /\ worklog = NoSession
    /\ worklog_log = NothingShown

NextWorklog ==
    \/ WorklogCommand
    \/ \E text \in TopicMessages : HandleWorklogMessage(text)
    \/ \E index \in 0..(MaxEntries + 1) : RemoveCommand(index)
    \/ \E index \in 0..(MaxEntries + 1) : EditCommand(index, "edited")
    \/ DoneCommand
    \/ CloseCommand

SpecWorklog == InitWorklog /\ [][NextWorklog]_vars

(***************************************************************************)
(* OpenAIProvider.stream driven directly: up to MaxEvents chunks of the    *)
(* vendor stream, with content, tool call deltas for two indices and any   *)
(* finish_reason.                                                          *)
(***************************************************************************)
\* argument fragments: {"q": and 1} make a JSON text in this order only
OpenFragment == <<"{", "\"", "q", "\"", ":">>

CloseFragment == <<"1", "}">>

CallIds == <<"call_a", "call_b">>

\* a delta that names the call, and one that only carries a fragment
ToolCallDeltas ==
    {[index |-> i, id |-> CallIds[i + 1], name |-> "web_search", arguments |-> f] :
        i \in 0..1, f \in {<<>>, OpenFragment}}
    \cup {[index |-> i, id |-> None, name |-> None, arguments |-> f] :
        i \in 0..1, f \in {OpenFragment, CloseFragment}}

VendorChunk(content, tcs, finish_reason) ==
    [choices |-> TRUE, content |-> content, tool_calls |-> tcs, finish_reason |-> finish_reason]

OpenAIChunks ==
    {[choices |-> FALSE, content |-> None, tool_calls |-> <<>>, finish_reason |-> None],
     VendorChunk("hi", <<>>, None),
     VendorChunk(None, <<>>, "stop"),
     VendorChunk(None, <<>>, "tool_calls"),
     VendorChunk(None, <<[index |-> 1, id |-> "call_b", name |-> "save_note",
                          arguments |-> <<"{", "}">>],
                         [index |-> 0, id |-> None, name |-> None,
                          arguments |-> CloseFragment]>>, None)}
    \cup {VendorChunk(None, <<tc>>, f) : tc \in ToolCallDeltas, f \in {None, "tool_calls"}}

InitOpenAIStream ==
    /\ NoService
    /\ NoAdapter
    /\ NoRegistry
    /\ NoCall
    /\ NoWorklog
    /\ vendor_events = <<>>
    /\ stream_locals = [pc |-> "streaming", accumulated_tool_calls |-> <<>>]
    /\ stream_chunks = <<>>

NextOpenAIStream ==
    \/ \E chunk \in OpenAIChunks : OpenAIStreamNext(chunk)
    \/ OpenAIStreamEnd

SpecOpenAIStream == InitOpenAIStream /\ [][NextOpenAIStream]_vars

(***************************************************************************)
(* AnthropicProvider.stream driven directly: one message of up to          *)
(* MaxBlocks content blocks with up to MaxFragments deltas each.  The SDK  *)
(* stream closes the block it has opened and ends the message with         *)
(* message_stop, and the consumer iterates the generator to its end.       *)
(***************************************************************************)
ContentBlocks ==
    {[type |-> "text", id |-> None, name |-> None],
     [type |-> "tool_use", id |-> "toolu_a", name |-> "web_search"],
     [type |-> "tool_use", id |-> "toolu_b", name |-> "save_note"]}

InitAnthropicStream ==
    /\ NoService
    /\ NoAdapter
    /\ NoRegistry
    /\ NoCall
    /\ NoWorklog
    /\ vendor_events = <<>>
    /\ stream_locals = [pc |-> "streaming", current_tool_call |-> NoCurrentToolCall]
    /\ stream_chunks = <<>>

NextAnthropicStream ==
    \/ \E block \in ContentBlocks : OnContentBlockStart(block)
    \/ OnTextDelta("hi")
    \/ \E f \in {OpenFragment, CloseFragment} : OnPartialJsonDelta(f)
    \/ OnContentBlockStop
    \/ OnMessageStop
    \/ AnthropicStreamEnd

SpecAnthropicStream ==
    /\ InitAnthropicStream
    /\ [][NextAnthropicStream]_vars
    /\ WF_vendor_events(Delivered(StreamEvent("content_block_stop", NoBlock, None, <<>>)))
    /\ WF_vendor_events(Delivered(StreamEvent("message_stop", NoBlock, None, <<>>)))

(***************************************************************************)
(* The streaming handler driven directly: one handler, any appends, any    *)
(* answers of the transport, any passing of time.                          *)
(***************************************************************************)
Intervals == {2, 3}

MinChars == {3, 4}

Deltas == {"", "abc", "de"}

RetryAfters == {1}

BadRequestMessages == {NotModified, NotFound, CantParse}

EditAnswers ==
    {Accepted} \cup {RetryAfterError(r) : r \in RetryAfters}
               \cup {BadRequestError(m) : m \in BadRequestMessages}

InitStreaming ==
    /\ config = [providers |-> ConfiguredProviders, tools_enabled |-> TRUE,
                 max_tool_iterations |-> MaxToolIterations]
    /\ provider = "deepseek"
    /\ tool_registry = [attached |-> TRUE, tools |-> SetupTools]
    /\ tool_executor = RegistryTruthy(tool_registry)
    /\ pc = "idle"
    /\ input_messages = <<>>
    /\ converted_messages = <<>>
    /\ current_messages = <<>>
    /\ current_response = NoResponse
    /\ iteration = 0
    /\ accumulated_content = ""
    /\ tool_calls = <<>>
    /\ last_chunk = NoChunk
    /\ returned = None
    /\ responses = <<>>
    /\ calls = <<>>
    /\ batches = <<>>
    /\ produced = <<>>
    /\ yielded = <<>>
    /\ ex_pc = "idle"
    /\ batch = <<>>
    /\ tasks = <<>>
    /\ order = <<>>
    /\ results = <<>>
    /\ TelegramStreamingHandlerInit
    /\ update_interval_ms \in Intervals
    /\ min_chars_per_update \in MinChars
    /\ NoLog
    /\ NoLibrary

NextStreaming ==
    \/ Tick
    \/ \E ok \in BOOLEAN : Start(ok)
    \/ \E d \in Deltas : StreamingAppend(d)
    \/ \E a \in EditAnswers : EditAnswer(a)
    \/ SleepDone
    \/ Finalize
    \/ \E a \in EditAnswers : FinalAnswer(a)
    \/ \E a \in EditAnswers : PlainAnswer(a)
    \/ Reset

SpecStreaming == InitStreaming /\ [][NextStreaming]_vars

(***************************************************************************)
(* _process_streaming_response: one reply streamed through a new handler,  *)
(* the stream delivering non-empty deltas or raising.                      *)
(***************************************************************************)
InitReply ==
    /\ InitStreaming
    /\ update_interval_ms = 2
    /\ min_chars_per_update = 3

NextReply ==
    \/ Tick
    \/ \E ok \in BOOLEAN : Start(ok)
    \/ \E d \in Deltas \ {""} : StreamingAppend(d)
    \/ StreamingFails
    \/ \E a \in EditAnswers : EditAnswer(a)
    \/ SleepDone
    \/ Finalize
    \/ \E a \in EditAnswers : FinalAnswer(a)
    \/ \E a \in EditAnswers : PlainAnswer(a)

SpecReply == InitReply /\ [][NextReply]_vars

(***************************************************************************)
(* Properties                                                              *)
(***************************************************************************)
GetRequest == calls # <<>> /\ calls[1].method = "complete"

StreamRequest == calls # <<>> /\ calls[1].method = "stream"

\* the chunks stream_response yielded that came from a provider stream
ProviderYielded ==
    LET sel == SelectSeq(yielded, LAMBDA y : y.from = "provider")
    IN [i \in 1..Len(sel) |-> sel[i].chunk]

ProducedChunks == [i \in 1..Len(produced) |-> produced[i].chunk]

\* the terminal chunks the first provider stream has delivered
FirstStreamTerminals ==
    {j \in 1..Len(produced) : produced[j].call = 1 /\ produced[j].chunk.is_complete}

\* C1 (the bound): a get_response request invokes provider.complete at most
\* max_tool_iterations + 1 times and runs at most max_tool_iterations tool
\* batches, whatever the provider answers; it never raises because of the
\* cap, and what it returns is the content of the last response received.
C1_Bounded ==
    GetRequest =>
        /\ Len(calls) <= config.max_tool_iterations + 1
        /\ Len(batches) <= config.max_tool_iterations
        /\ Len(responses) <= Len(calls)
        /\ pc \in {"complete", "execute_all", "loop_complete", "done"}
        /\ pc = "done" =>
              /\ Len(responses) = Len(calls)
              /\ returned = responses[Len(responses)].content

\* C1 (the whole claim): the bound above holds throughout, and every
\* get_response request that was started returns.
C1_ToolLoopBounded == [](C1_Bounded) /\ ((pc = "complete") ~> (pc = "done"))

\* a request whose every response asked for tools, stopped by the cap
C1_Witness ==
    /\ GetRequest
    /\ pc = "done"
    /\ config.max_tool_iterations = 2
    /\ Len(calls) = 3
    /\ Len(batches) = 2
    /\ \A i \in 1..Len(responses) : responses[i].tool_calls # <<>>
    /\ returned = "final"
    /\ responses[1].content = ""

\* C2: when the first provider.complete response carries no tool calls,
\* get_response returns that response's content at once: one provider call,
\* no tool executed.
C2_NoToolCallsSingleCall ==
    (GetRequest /\ responses # <<>> /\ responses[1].tool_calls = <<>>) =>
        /\ pc = "done"
        /\ returned = responses[1].content
        /\ Len(calls) = 1
        /\ Len(responses) = 1
        /\ batches = <<>>
        /\ ex_pc = "idle"

\* tools were offered and an executor exists, and the answer has no tool calls
C2_Witness ==
    /\ GetRequest
    /\ pc = "done"
    /\ responses[1].tool_calls = <<>>
    /\ tool_executor
    /\ config.max_tool_iterations > 0
    /\ ~calls[1].tools.is_none
    /\ returned = "final"

\* the history the current iteration started from
IterationBase ==
    IF GetRequest THEN calls[Len(calls) - 1].messages ELSE converted_messages

\* C3: after a tool-loop iteration (either path) the history was extended by
\* one assistant message carrying the k tool calls of the turn and then
\* exactly k tool messages, the i-th of which has the id of the i-th call,
\* in whatever order the executions completed.
C3_ToolMessagesMatchCalls ==
    pc \in {"loop_complete", "continuation"} =>
        LET base == IterationBase
            cur == calls[Len(calls)].messages
            k == Len(batches[Len(batches)])
            n == Len(base)
        IN /\ cur = current_messages
           /\ Len(cur) = n + 1 + k
           /\ SubSeq(cur, 1, n) = base
           /\ cur[n + 1].role = "assistant"
           /\ cur[n + 1].tool_calls = batches[Len(batches)]
           /\ \A i \in 1..k :
                 /\ cur[n + 1 + i].role = "tool"
                 /\ cur[n + 1 + i].tool_call_id = cur[n + 1].tool_calls[i].id

\* two calls of one turn whose executions completed in reverse order, the
\* first of them failing
C3_Witness ==
    /\ pc = "loop_complete"
    /\ Len(batch) = 2
    /\ order = <<2, 1>>
    /\ ~results[1][2].success
    /\ Len(current_messages) >= 3
    /\ current_messages[Len(current_messages)].tool_call_id = batch[2].id

\* C4: execute_all returns one pair per call, in input order, the i-th pair
\* holding the i-th call and the result of executing that call, for every
\* completion order.
C4_ExecuteAllKeepsInputOrder ==
    ex_pc = "returned" =>
        /\ Len(results) = Len(batch)
        /\ \A i \in 1..Len(batch) :
              /\ results[i][1] = batch[i]
              /\ results[i][2] = ExecuteToolCall(tool_registry, batch[i]).value

\* three different calls whose executions completed last-first
C4_Witness ==
    /\ ex_pc = "returned"
    /\ pc = "idle"
    /\ batch = <<SearchCall, ReminderCall, UnknownCall>>
    /\ order = <<3, 2, 1>>
    /\ results[1][2].success
    /\ ~results[3][2].success

\* the tool body of call tc raises
BodyRaises(tc) ==
    RegistryHas(tool_registry, tc.name) /\ ToolExecute(tc.name, tc.arguments).raised

\* C5: execute_all never raises because of a tool: a call to an unregistered
\* tool, or whose tool body raises, gets a failed ToolResult with its error
\* set, and every other call of the batch still gets its own result.
C5_ToolFailuresContained ==
    /\ ex_pc # "raised"
    /\ \A i \in 1..Len(tasks) : tasks[i].done => ~tasks[i].outcome.raised
    /\ ex_pc = "returned" =>
          /\ Len(results) = Len(batch)
          /\ \A i \in 1..Len(batch) :
                /\ ~RegistryHas(tool_registry, batch[i].name) =>
                      /\ ~results[i][2].success
                      /\ results[i][2].error = "Unknown tool: " \o batch[i].name
                /\ BodyRaises(batch[i]) =>
                      /\ ~results[i][2].success
                      /\ results[i][2].error = ToolExecute(batch[i].name, batch[i].arguments).exc
                /\ (RegistryHas(tool_registry, batch[i].name) /\ ~BodyRaises(batch[i])) =>
                      results[i][2] = ToolExecute(batch[i].name, batch[i].arguments).value

\* [unknown tool, raising body, working tool]: failed, failed, succeeded
C5_Witness ==
    /\ ex_pc = "returned"
    /\ pc = "idle"
    /\ batch = <<UnknownCall, EmptyArgsCall, SearchCall>>
    /\ tool_registry.tools = SetupTools
    /\ ~results[1][2].success
    /\ ~results[2][2].success
    /\ results[2][2].error # None
    /\ results[3][2].success

\* C6: every provider call of a request is made on the provider that was
\* active when the request started, also when switch_provider runs while the
\* request is in flight.
C6_RequestKeepsItsProvider ==
    \A i \in 1..Len(calls) : calls[i].provider = calls[1].provider

\* the three conditions under which tools are offered
ToolsResolved(p) ==
    tool_registry.attached /\ config.tools_enabled /\ SupportsTools(p)

\* C7: a provider call carries tool schemas only if a registry is attached,
\* tools are enabled in the configuration and the provider supports tools.
C7_SchemasOnlyWhenResolved ==
    \A i \in 1..Len(calls) : ~calls[i].tools.is_none => ToolsResolved(calls[i].provider)

\* C8: inside one get_response request every provider.complete call of the
\* tool loop gets the tools argument of the request's first call.
C8_LoopKeepsToolsArgument ==
    GetRequest => \A i \in 1..Len(calls) : calls[i].tools = calls[1].tools

\* C9: stream_response yields every chunk of the provider streams (first and
\* continuation), unmodified, in arrival order, once each; and when a tool
\* batch starts, the chunk that triggered it is the last thing yielded.
C9_EveryChunkForwarded ==
    /\ ProviderYielded = ProducedChunks
    /\ pc = "stream_execute_all" =>
          /\ yielded # <<>>
          /\ yielded[Len(yielded)] = FromProvider(last_chunk)
          /\ produced[Len(produced)].chunk = last_chunk

\* a finished request that forwarded a first-stream chunk, the tool info and
\* a continuation chunk
C9_Witness ==
    /\ StreamRequest
    /\ pc = "done"
    /\ Len(calls) = 2
    /\ Len(produced) = 2
    /\ produced[2].call = 2
    /\ Len(yielded) = 3
    /\ yielded[2].from = "service"
    /\ yielded[3] = FromProvider(produced[2].chunk)

\* C10: in stream_response a tool batch, and the provider.stream call after
\* it, happen only once a chunk with is_complete has arrived and a tool call
\* has been accumulated; a stream that ends without tool calls or without a
\* terminal chunk causes neither.
C10_ToolsOnlyAfterTerminalChunk ==
    StreamRequest =>
        /\ Len(calls) <= Len(batches) + 1
        /\ Len(batches) <= Cardinality(FirstStreamTerminals)
        /\ batches # <<>> => tool_calls # <<>>
        /\ pc = "stream_execute_all" =>
              /\ last_chunk.is_complete
              /\ batch = tool_calls
              /\ batch # <<>>
        /\ (FirstStreamTerminals = {} \/ tool_calls = <<>>) =>
              /\ batches = <<>>
              /\ Len(calls) = 1
              /\ ex_pc = "idle"

\* a tool call arrived in a non-terminal chunk; the batch ran only after the
\* terminal chunk that followed
C10_Witness ==
    /\ StreamRequest
    /\ pc = "continuation"
    /\ Len(produced) = 2
    /\ ~produced[1].chunk.is_complete
    /\ produced[1].chunk.tool_calls # <<>>
    /\ produced[2].chunk.is_complete
    /\ produced[2].chunk.tool_calls = <<>>
    /\ Len(batches) = 1
    /\ Len(calls) = 2

\* the chunks that provider.stream call number c has delivered
StreamChunksOf(c) ==
    SelectSeq(produced, LAMBDA q : q.call = c)

\* call c delivered a tool call and completed with a terminal chunk
TurnAsksForTools(c) ==
    /\ \E j \in 1..Len(StreamChunksOf(c)) : StreamChunksOf(c)[j].chunk.tool_calls # <<>>
    /\ \E j \in 1..Len(StreamChunksOf(c)) : StreamChunksOf(c)[j].chunk.is_complete

\* C11: in stream_response the terminal-detection rule applies to every
\* turn: when a continuation stream, started after a tool batch, itself
\* delivers tool calls and then completes, those tool calls are executed as a
\* further batch, the assistant and tool-result messages are appended to the
\* history and provider.stream is invoked again on it.
C11_ContinuationToolCallsExecuted ==
    (StreamRequest /\ pc = "done") =>
        \A c \in 2..Len(calls) :
            TurnAsksForTools(c) =>
                /\ Len(batches) >= c
                /\ Len(calls) >= c + 1
                /\ \E j \in 1..Len(StreamChunksOf(c)) :
                      \E k \in 1..Len(batches[c]) :
                          batches[c][k] \in
                              {StreamChunksOf(c)[j].chunk.tool_calls[n] :
                                  n \in 1..Len(StreamChunksOf(c)[j].chunk.tool_calls)}
                /\ Len(calls[c + 1].messages) > Len(calls[c].messages)

\* C12: stream_response applies the bound of get_response: whatever the
\* provider streams and whatever max_tool_iterations is (0 included), one
\* request runs at most max_tool_iterations tool batches and invokes
\* provider.stream at most max_tool_iterations + 1 times.
C12_StreamBounded ==
    StreamRequest =>
        /\ Len(batches) <= config.max_tool_iterations
        /\ Len(calls) <= config.max_tool_iterations + 1

\* the handler has sent its message and was not reset since
Started == message_id # None

\* the call of start, append or finalize made last
LastOp == ops[Len(ops)]

LastOpIs(name) == ops # <<>> /\ LastOp.name = name

\* the texts given to append since start, in call order
AppendedTexts ==
    LET sel == SelectSeq(ops, LAMBDA o : o.name = "append")
    IN [i \in 1..Len(sel) |-> sel[i].text]

RECURSIVE Concat(_)
Concat(ds) == IF ds = <<>> THEN "" ELSE ds[1] \o Concat(Tail(ds))

\* time of the last accepted edit, or of start when no edit was accepted yet
LastSuccess ==
    IF transport.accepted_at >= 0 THEN transport.accepted_at ELSE transport.started_at

\* C13: an edit is issued by append only if, at the time of that append, at
\* least update_interval_ms has passed since the last accepted edit (since
\* start when there is none) and at least min_chars_per_update characters
\* were accumulated since the last accepted edit; an append at which either
\* condition fails issues no edit.
C13_EditOnlyWhenGateOpen ==
    h_pc \in {"edit", "sleep"} =>
        /\ LastOpIs("append")
        /\ edits # <<>>
        /\ edits[1].at - LastSuccess >= update_interval_ms
        /\ Len(Concat(AppendedTexts)) - transport.accepted_length >= min_chars_per_update

\* the second edit of a message, issued by the append that made both
\* conditions true again, each of them exactly
C13_Witness ==
    /\ h_pc = "edit"
    /\ LastOpIs("append")
    /\ Len(edits) = 1
    /\ transport.accepted_at >= 0
    /\ edits[1].at - transport.accepted_at = update_interval_ms
    /\ Len(accumulated_text) - transport.accepted_length = min_chars_per_update
    /\ edits[1].text = "abcabc ..."

\* C14: while every edit is accepted, the number of edits append has issued
\* in the T milliseconds since start is at most floor(T / update_interval_ms).
C14_EditRateBounded ==
    (Started /\ transport.all_accepted) =>
        transport.edits_by_append <= (now - transport.started_at) \div update_interval_ms

\* two accepted edits in a window of exactly two intervals
C14_Witness ==
    /\ Started
    /\ h_pc = "idle"
    /\ transport.all_accepted
    /\ transport.edits_by_append = 2
    /\ now - transport.started_at = 2 * update_interval_ms
    /\ transport.accepted_at = now
    /\ last_sent_length = 6

\* C15: no transport presentation error is surfaced: an append or a finalize
\* whose edit was answered with a rate-limit, a content-unchanged or a
\* message-not-found response returns normally to its caller.
C15_NoTransportErrorSurfaced ==
    \A i \in 1..Len(ops) :
        (/\ ops[i].name \in {"append", "finalize"}
         /\ \/ ops[i].answer.exc = "RetryAfter"
            \/ ops[i].answer.message \in {NotModified, NotFound}) =>
            ops[i].result # "raised"

RejectionAbsorbed ==
    /\ LastOpIs("append")
    /\ h_pc = "idle"
    /\ edits # <<>>
    /\ edits[Len(edits)].answer.message \in {NotModified, NotFound}

\* C17 (the rejected append): a content-unchanged or message-not-found
\* rejection of an append's edit is not retried: that attempt is the last,
\* append returns normally, and message_id, accumulated_text and the marks
\* of the last accepted edit are what they were.
C17_Absorbed ==
    RejectionAbsorbed =>
        /\ LastOp.result = "returned"
        /\ Len(edits) = RateLimitsOfOperation + 1
        /\ message_id = SentMessageId
        /\ accumulated_text = Concat(AppendedTexts)
        /\ last_sent_length = transport.accepted_length
        /\ last_update_time = LastSuccess

\* C17 (the appends after it): the next append evaluates the gate as usual
\* and issues an edit when both conditions hold.
C17_NextAppendEdits ==
    (/\ RejectionAbsorbed
     /\ Len(ops') = Len(ops) + 1
     /\ ops'[Len(ops')].name = "append"
     /\ accumulated_text' # ""
     /\ now - LastSuccess >= update_interval_ms
     /\ Len(accumulated_text') - transport.accepted_length >= min_chars_per_update) =>
        /\ h_pc' = "edit"
        /\ Len(edits') = 1
        /\ edits'[1].text = accumulated_text' \o " ..."

\* C17: a content-unchanged or message-not-found rejection of an edit issued
\* by append is absorbed without retry and changes nothing, and later
\* appends still attempt edits when the gate is satisfied.
C17_RejectionAbsorbed == [](C17_Absorbed) /\ [][C17_NextAppendEdits]_vars

\* an append issues an edit although no edit was accepted so far: the edit
\* of the append before it was rejected
C17_Witness ==
    /\ LastOpIs("append")
    /\ h_pc = "edit"
    /\ NumAppends = 2
    /\ Len(edits) = 1
    /\ transport.edits_by_append = 2
    /\ ~transport.all_accepted
    /\ transport.accepted_at = -1
    /\ ops[2].answer.message = NotModified
    /\ ops[2].result = "returned"

\* what was accumulated by the appends, or the placeholder when that is empty
FinalText ==
    IF Concat(AppendedTexts) = "" THEN NoResponseText ELSE Concat(AppendedTexts)

\* C18: finalize, called after start, issues an edit with the full
\* accumulated text, without the in-progress marker and with parse mode
\* Markdown, whether or not the update gate is open; it issues a second edit,
\* of the same text without parse mode, exactly when the first was rejected
\* as unparseable, and never a third.
C18_FinalizeEdits ==
    (Started /\ LastOpIs("finalize")) =>
        /\ Len(edits) \in {1, 2}
        /\ edits[1].text = FinalText
        /\ edits[1].text = accumulated_text
        /\ edits[1].parse_mode = "Markdown"
        /\ Len(edits) = 2 =>
              /\ edits[1].answer = BadRequestError(CantParse)
              /\ edits[2].text = edits[1].text
              /\ edits[2].parse_mode = None
        /\ (edits[1].answer = BadRequestError(CantParse)) => Len(edits) = 2
        /\ h_pc \in {"idle", "final_edit", "plain_edit"}
        /\ h_pc = "final_edit" <=> edits[1].answer = NoAnswer
        /\ h_pc = "plain_edit" <=> (Len(edits) = 2 /\ edits[2].answer = NoAnswer)

\* finalize right after an append that the gate kept from editing (no time
\* has passed since start): Markdown edit rejected as unparseable, plain
\* edit accepted
C18_Witness ==
    /\ Started
    /\ LastOpIs("finalize")
    /\ h_pc = "idle"
    /\ now = transport.started_at
    /\ transport.edits_by_append = 0
    /\ Len(edits) = 2
    /\ edits[1].text = "abc"
    /\ edits[1].answer.message = CantParse
    /\ edits[2].answer.exc = "none"
    /\ LastOp.result = "returned"

\* C19: finalize called after start when no text was ever accumulated sends
\* an edit whose text is exactly "No response generated." and returns
\* without raising.
C19_PlaceholderWhenEmpty ==
    (Started /\ LastOpIs("finalize") /\ Concat(AppendedTexts) = "") =>
        /\ edits # <<>>
        /\ edits[1].text = "No response generated."
        /\ LastOp.result # "raised"

\* an append step extends accumulated_text by its argument
C20_AppendExtends ==
    (Started /\ Len(ops') = Len(ops) + 1 /\ ops'[Len(ops')].name = "append") =>
        /\ Started'
        /\ \E d \in Deltas : accumulated_text' = accumulated_text \o d
        /\ accumulated_text' = accumulated_text \o ops'[Len(ops')].text

\* once some text was appended, get_text is the concatenation of the appends
C20_TextIsConcatenation ==
    (Started /\ Concat(AppendedTexts) # "") => GetText = Concat(AppendedTexts)

\* C20: between start and reset accumulated_text only grows: the text before
\* an append is a prefix of the text after it, and after appends d1..dn, not
\* all empty, get_text returns d1 + ... + dn, whatever the edits in between
\* were answered or whether any was attempted.
C20_TextOnlyGrows == [](C20_TextIsConcatenation) /\ [][C20_AppendExtends]_vars

\* two appends, the edit of the second rate-limited and then rejected, and
\* finalize after them
C20_Witness ==
    /\ Started
    /\ LastOpIs("finalize")
    /\ AppendedTexts = <<"abc", "de">>
    /\ ops[3].answer.exc = "BadRequest"
    /\ ~transport.all_accepted
    /\ transport.edits_by_append = 2
    /\ GetText = "abcde"

\* the edits of the operation in flight that the transport has not answered
InFlight == {i \in 1..Len(edits) : edits[i].answer = NoAnswer}

\* at most one edit is unanswered, it is the last one issued, and the
\* handler is suspended on it
C21_OneInFlight ==
    /\ Cardinality(InFlight) <= 1
    /\ InFlight # {} <=> h_pc \in {"edit", "final_edit", "plain_edit"}
    /\ InFlight \subseteq {Len(edits)}

\* a step that issues an edit: for a new operation the previous operation
\* has ended (nothing unanswered, no backoff pending); for the operation in
\* flight every earlier edit of it has been answered, and the retry after a
\* rate limit is issued by the end of the sleep
C21_IssuedAfterPrevious ==
    (InFlight' # {} /\ <<edits, ops>>' # <<edits, ops>>) =>
        /\ Len(ops') > Len(ops) => (InFlight = {} /\ h_pc = "idle")
        /\ Len(ops') = Len(ops) =>
               /\ Len(edits') = Len(edits) + 1
               /\ \A i \in 1..Len(edits) : edits'[i].answer # NoAnswer
               /\ h_pc \in {"sleep", "final_edit"}
               /\ h_pc = "sleep" => InFlight = {}

\* C21: for one streaming handler driven by one response stream at most one
\* edit is in flight at a time, and a new edit is never issued before the
\* previous attempt, its backoff and retries included, has completed.
C21_EditsSerialized == [](C21_OneInFlight) /\ [][C21_IssuedAfterPrevious]_vars

\* the second append waits on the retry of its edit: the edit of the first
\* append was answered, the second append's first edit was rate-limited and
\* the sleep is over
C21_Witness ==
    /\ Started
    /\ NumAppends = 2
    /\ LastOpIs("append")
    /\ h_pc = "edit"
    /\ transport.edits_by_append = 3
    /\ Len(edits) = 2
    /\ edits[1].answer.exc = "RetryAfter"
    /\ InFlight = {2}

\* the last switch_provider call raised
SwitchRefused == switched.error # None

\* a call raises only for a name that is no provider type, or for a type
\* the configuration has no entry for, and the error names the provider as
\* it was given; the active provider is always a configured provider type
C22_ErrorNamesProvider ==
    /\ provider \in {"openai", "anthropic", "deepseek"} \cap config.providers
    /\ SwitchRefused =>
           IF Lower(switched.name) \notin {"openai", "anthropic", "deepseek"}
           THEN switched.error = "Unknown provider: " \o switched.name
           ELSE /\ Lower(switched.name) \notin config.providers
                /\ switched.error = "Provider " \o switched.name \o " not configured"

\* the step of a call that raises changes neither the active provider nor
\* the request in flight and calls no provider; a step that changes the
\* active provider is one of a call that returned
C22_RefusedSwitchChangesNothing ==
    /\ (switched' # switched /\ SwitchRefused') =>
           /\ provider' = provider
           /\ calls' = calls
           /\ pc' = pc
    /\ provider' # provider => ~SwitchRefused'

\* C22: switch_provider with a name that is unknown, or known but not in the
\* configuration, raises an error naming that provider before any provider
\* call is made and leaves the active provider unchanged.
C22_BadSwitchRefused ==
    [](C22_ErrorNamesProvider) /\ [][C22_RefusedSwitchChangesNothing]_vars

\* a switch to the known but unconfigured openai while a request waits for
\* the provider in the tool loop
C22_Witness ==
    /\ pc = "loop_complete"
    /\ switched = [name |-> "openai", error |-> "Provider openai not configured"]
    /\ provider = "anthropic"
    /\ calls[1].provider = "anthropic"

\* the request in flight waits for a provider call
AwaitsProvider == pc \in {"complete", "loop_complete", "stream", "continuation"}

\* a request that raised has no tool coroutine left running
C23_NothingLeftRunning ==
    pc = "raised" =>
        /\ failed # <<>>
        /\ ex_pc \in {"idle", "returned"}
        /\ \A i \in 1..Len(tasks) : tasks[i].done

\* the step in which a provider call fails ends the request with the
\* provider's own error; afterwards the request calls no provider and
\* executes no tool, and all it leaves behind is a service in the state it
\* had, ready for the next request
C23_AbortsOnlyTheRequest ==
    /\ Len(failed') > Len(failed) =>
           /\ AwaitsProvider
           /\ pc' = "raised"
           /\ failed' = Append(failed, failed'[Len(failed')])
           /\ failed'[Len(failed')] \in
                  {"AI request timed out. Please try again.",
                   "Could not connect to AI service."}
           /\ calls' = calls
           /\ batches' = batches
           /\ yielded' = yielded
           /\ returned' = returned
    /\ pc = "raised" =>
           /\ pc' \in {"raised", "idle"}
           /\ pc' = "raised" => (calls' = calls /\ batches' = batches /\ ex_vars' = ex_vars)
           /\ provider' = provider
           /\ static_vars' = static_vars

\* C23: an error raised by a provider call, the first one or one in the
\* tool loop, aborts only the request in flight: it propagates out of
\* get_response / stream_response, the request makes no further provider
\* call and executes no further tool, and the service stays usable.
C23_ProviderErrorAbortsRequest ==
    [](C23_NothingLeftRunning) /\ [][C23_AbortsOnlyTheRequest]_vars

\* a get_response request served through the tool loop after an earlier
\* request was aborted by a provider error
C23_Witness ==
    /\ failed = <<"Could not connect to AI service.">>
    /\ pc = "done"
    /\ Len(calls) = 2
    /\ calls[2].method = "complete"
    /\ Len(batches) = 1
    /\ returned # None

\* an adapter call that the vendor failed
AdapterRaised == adapter_result.pc = "raised"

\* C24: for every adapter a timeout of the vendor call, in complete or in
\* stream, is reported with the timeout error and a connection failure with
\* the connection error, each distinct from the generic "AI service error"
\* that the other failures are reported with.
C24_TimeoutAndConnectionDistinct ==
    AdapterRaised =>
        /\ adapter_result.exception.class = "httpx.TimeoutException" =>
               adapter_result.error = "AI request timed out. Please try again."
        /\ adapter_result.exception.class = "httpx.ConnectError" =>
               adapter_result.error = "Could not connect to AI service."
        /\ adapter_result.exception.class = "Exception" =>
               adapter_result.error = "AI service error: " \o adapter_result.exception.text

\* the Anthropic adapter has built the arguments of its vendor call
AnthropicCalled ==
    adapter_request.adapter = "anthropic" /\ adapter_result.pc # "idle"

\* positions of the system messages of the history given to the adapter
SystemPositions ==
    {i \in 1..Len(adapter_request.messages) : adapter_request.messages[i].role = "system"}

FirstSystem == adapter_request.messages[CHOOSE i \in SystemPositions :
                                            \A j \in SystemPositions : i <= j]

LastSystem == adapter_request.messages[CHOOSE i \in SystemPositions :
                                           \A j \in SystemPositions : i >= j]

\* the history without its system messages
NonSystem == SelectSeq(adapter_request.messages, LAMBDA m : m.role # "system")

\* C25: _extract_system_message returns the input list with every system
\* message removed and the order of the others kept, together with the
\* content of a system message: None if there is none, that of the last one
\* if there are several.
C25_ExtractSystemMessage ==
    AnthropicCalled =>
        /\ adapter_result.filtered = NonSystem
        /\ SystemPositions = {} => adapter_result.system = None
        /\ SystemPositions # {} => adapter_result.system = LastSystem.content

\* system S1, user, system S2: S2 is returned with the user message alone
C25_Witness ==
    /\ AnthropicCalled
    /\ adapter_request.messages = << Message("system", "S1", <<>>, None),
                                     Message("user", "U", <<>>, None),
                                     Message("system", "S2", <<>>, None) >>
    /\ adapter_result.system = "S2"
    /\ adapter_result.filtered = << Message("user", "U", <<>>, None) >>

\* the history has several system messages, none of them empty
SeveralSystems ==
    /\ Cardinality(SystemPositions) > 1
    /\ \A i \in SystemPositions : adapter_request.messages[i].content # ""

\* C26 as stated: of several system messages the first wins, its content
\* is the system parameter of the vendor call.
C26_FirstSystemWins ==
    (AnthropicCalled /\ SeveralSystems) =>
        /\ "system" \in DOMAIN adapter_result.kwargs
        /\ adapter_result.kwargs.system = FirstSystem.content

\* C26: of several system messages given to the Anthropic adapter the last
\* wins: its content is the system parameter of the vendor call when it is
\* not empty, no system parameter is sent when it is empty, and no system
\* message is left among the messages sent.
C26_LastSystemWins ==
    (AnthropicCalled /\ Cardinality(SystemPositions) > 1) =>
        /\ LastSystem.content # "" =>
               /\ "system" \in DOMAIN adapter_result.kwargs
               /\ adapter_result.kwargs.system = LastSystem.content
        /\ LastSystem.content = "" => "system" \notin DOMAIN adapter_result.kwargs
        /\ \A i \in 1..Len(adapter_result.kwargs.messages) :
               adapter_result.kwargs.messages[i].role # "system"

\* system S1, system S2, user, in a stream call: S2 is sent
C26_Witness ==
    /\ AnthropicCalled
    /\ adapter_request.method = "stream"
    /\ adapter_request.messages = << Message("system", "S1", <<>>, None),
                                     Message("system", "S2", <<>>, None),
                                     Message("user", "U", <<>>, None) >>
    /\ adapter_result.kwargs.system = "S2"
    /\ Len(adapter_result.kwargs.messages) = 1

\* the assistant message that a tool message at position i of history h
\* answers: the nearest one before it, with tool messages only in between
AnsweredAssistant(h, i) ==
    {j \in 1..(i - 1) : /\ h[j].role = "assistant"
                         /\ \A k \in (j + 1)..(i - 1) : h[k].role = "tool"}

\* a history as the tool loop builds it: every tool message answers a tool
\* call of the assistant message before it
ToolLoopHistory(h) ==
    /\ \E i \in 1..Len(h) : h[i].role = "tool"
    /\ \A i \in 1..Len(h) :
           h[i].role = "tool" =>
               \E j \in AnsweredAssistant(h, i) :
                   \E k \in 1..Len(h[j].tool_calls) :
                       h[j].tool_calls[k].id = h[i].tool_call_id

\* the ids of the tool calls that a message in Anthropic wire form carries
CarriedToolUseIds(w) ==
    (IF w.content.type = "list"
     THEN {w.content.value[k].id :
              k \in {n \in 1..Len(w.content.value) : w.content.value[n].type = "tool_use"}}
     ELSE {})
    \cup (IF "tool_calls" \in DOMAIN w
          THEN {w.tool_calls[k].id : k \in 1..Len(w.tool_calls)}
          ELSE {})

\* each tool message is sent as a user message with one tool_result block
\* that has the id of the message
ToolResultsWrapped ==
    \A i \in 1..Len(NonSystem) :
        NonSystem[i].role = "tool" =>
            LET w == adapter_result.kwargs.messages[i]
            IN /\ w.role = "user"
               /\ w.content.type = "list"
               /\ Len(w.content.value) = 1
               /\ w.content.value[1].type = "tool_result"
               /\ w.content.value[1].tool_use_id = NonSystem[i].tool_call_id

\* the id of each tool_result is the id of a tool call that the assistant
\* message before it carries in the messages sent
ToolUsesSurvive ==
    \A i \in 1..Len(NonSystem) :
        NonSystem[i].role = "tool" =>
            \E j \in AnsweredAssistant(NonSystem, i) :
                adapter_result.kwargs.messages[i].content.value[1].tool_use_id
                    \in CarriedToolUseIds(adapter_result.kwargs.messages[j])

\* C27: in the Anthropic wire form of a history produced by the tool loop
\* each tool message is a user message wrapping a tool_result block whose
\* tool_use_id is the tool_call_id of the message, and that id is the id of
\* a tool call carried by the assistant message before it in the converted
\* list.
C27_ToolCorrelationPreserved ==
    (AnthropicCalled /\ ToolLoopHistory(NonSystem)) =>
        (ToolResultsWrapped /\ ToolUsesSurvive)

\* sequence s is the beginning of sequence t
IsPrefix(s, t) == Len(s) <= Len(t) /\ SubSeq(t, 1, Len(s)) = s

\* each provider stream of the request ended with its terminal chunk: no
\* chunk of a stream came after a chunk of it with is_complete
StreamsEndAtTerminalChunk ==
    \A j, k \in 1..Len(produced) :
        (j < k /\ produced[j].call = produced[k].call) => ~produced[j].chunk.is_complete

\* the history of the first provider call is the caller's list, message by
\* message, and the history of every later call begins with the history of
\* the call before it
C28_HistoryExtended ==
    /\ calls # <<>> =>
           /\ Len(calls[1].messages) = Len(input_messages)
           /\ \A i \in 1..Len(input_messages) :
                  /\ calls[1].messages[i].role = input_messages[i].role
                  /\ "content" \in DOMAIN input_messages[i] =>
                         calls[1].messages[i].content = input_messages[i].content
    /\ \A i \in 1..(Len(calls) - 1) :
           /\ IsPrefix(calls[i].messages, calls[i + 1].messages)
           /\ Len(calls[i + 1].messages) > Len(calls[i].messages)

\* no step of a request changes the caller's list or the record of a
\* provider call already made
C28_NothingRewritten ==
    (pc # "idle" /\ pc' # "idle") =>
        /\ input_messages' = input_messages
        /\ IsPrefix(calls, calls')

CallsOn(n) == {i \in 1..Len(registry_log) : registry_log[i].name = n}

\* what the log says get(n) returns: the tool of the last call on n when
\* that call is a register, nothing otherwise
Registered(n) ==
    IF CallsOn(n) = {} THEN NoTool
    ELSE LET last == CHOOSE i \in CallsOn(n) : \A j \in CallsOn(n) : j <= i
         IN IF registry_log[last].op = "register"
            THEN registry_log[last].tool ELSE NoTool

\* at most one tool per name, and get agrees with the log
C29_LastRegistrationWins ==
    \A n \in {"web_search", "save_note"} :
        /\ Cardinality({i \in 1..Len(registry) : registry[i][1] = n}) <= 1
        /\ RegistryGet(registry, n) = Registered(n)
        /\ RegistryContains(registry, n) <=> Registered(n) # NoTool
        /\ \A i \in 1..Len(registry) : registry[i][1] = registry[i][2].name

\* a call on n is made whatever the registry holds and changes the entry
\* of n only; unregister of an absent name changes nothing
C29_OtherNamesUntouched ==
    Len(registry_log') = Len(registry_log) + 1 =>
        LET call == registry_log'[Len(registry_log')]
        IN /\ \A m \in {"web_search", "save_note"} \ {call.name} :
                  RegistryGet(registry', m) = RegistryGet(registry, m)
           /\ (call.op = "unregister" /\ ~RegistryContains(registry, call.name)) =>
                  registry' = registry
           /\ call.op = "register" => RegistryGet(registry', call.name) = call.tool
           /\ call.op = "unregister" => RegistryGet(registry', call.name) = NoTool

\* C29: after any sequence of register / unregister calls the registry
\* holds at most one tool per name; get(n) returns the tool of the most
\* recent register of n if no unregister of n followed it and nothing
\* otherwise; registering a name again overwrites, unregistering an absent
\* name is a no-op, and a call on n leaves every other name as it was.
C29_RegistryIsMap ==
    [](C29_LastRegistrationWins) /\ [][C29_OtherNamesUntouched]_vars

\* web_search registered, save_note registered, web_search registered
\* again with another tool: get returns the second one
C29_Witness ==
    /\ Len(registry_log) = 3
    /\ registry_log[1].tool = Tool("web_search", "first")
    /\ registry_log[2].tool = Tool("save_note", "first")
    /\ registry_log[3].tool = Tool("web_search", "second")
    /\ RegistryGet(registry, "web_search") = Tool("web_search", "second")
    /\ RegistryGet(registry, "save_note") = Tool("save_note", "first")
    /\ Len(registry) = 2

\* the service was built on a registry that has no tool, with tools enabled
EmptyRegistryEnabled ==
    /\ tool_registry.attached
    /\ Len(tool_registry.tools) = 0
    /\ config.tools_enabled

\* C30: with a registry that has no tool registered, a provider that
\* supports tools and tools enabled, the tool resolution of the service
\* offers no tool schema to the provider and raises no error: the provider
\* is called, and the request ends normally.
C30_EmptyRegistryOffersNothing ==
    EmptyRegistryEnabled =>
        /\ pc # "raised"
        /\ pc \notin {"idle"} => calls # <<>>
        /\ \A i \in 1..Len(calls) :
               SupportsTools(calls[i].provider) => calls[i].tools.schemas = <<>>

\* such a service asked with use_tools has called the provider without
\* tools, although the response asks for one, and has returned
C30_Witness ==
    /\ EmptyRegistryEnabled
    /\ pc = "done"
    /\ Len(calls) = 1
    /\ calls[1].method = "complete"
    /\ SupportsTools(calls[1].provider)
    /\ calls[1].tools = NoTools
    /\ responses[1].tool_calls # <<>>
    /\ returned = responses[1].content

\* C31: a successful ToolResult whose result is a mapping serializes to a
\* text that json.loads parses back into that mapping, and a failed one to
\* "Error: " followed by its error message.
C31_RoundTrip ==
    call_result.returned =>
        /\ (call_args.success /\ call_args.result.t = "dict")
              => JsonLoads(call_result.value) = [ok |-> TRUE, value |-> call_args.result]
        /\ (~call_args.success /\ call_args.error # NoError)
              => call_result.value = ErrorPrefixChars \o call_args.error

HasQuote(value) == value.t = "str" /\ \E i \in 1..Len(value.v) : value.v[i] \in {"\"", "\\"}

C31_Witness ==
    /\ call_result.returned
    /\ call_args.success
    /\ call_args.result.t = "dict"
    /\ Len(call_args.result.v) = 2
    /\ HasQuote(call_args.result.v[1][2])
    /\ call_args.result.v[2][2].t = "list"
    /\ JsonLoads(call_result.value).ok

\* a get_response request has returned and its first response asked for tools
AskedForTools ==
    /\ GetRequest
    /\ pc = "done"
    /\ HasToolCalls(responses[1].tool_calls)

\* C34: a service constructed with a registry attached has a tool executor,
\* and the tool calls a provider returns are executed whenever a registry is
\* attached, also when it was empty at construction and got its tools later.
C34_AttachedRegistryExecutes ==
    tool_registry.attached =>
        /\ tool_executor
        /\ AskedForTools => batches # <<>>

RECURSIVE Flatten(_)
Flatten(lists) == IF lists = <<>> THEN <<>> ELSE Head(lists) \o Flatten(Tail(lists))

Count(seq, x) == Cardinality({i \in 1..Len(seq) : seq[i] = x})

\* the tool calls the provider streams have emitted, and those given to execute_all
EmittedCalls == Flatten([i \in 1..Len(produced) |-> produced[i].chunk.tool_calls])

ExecutedCalls == Flatten(batches)

\* C35: in stream_response no tool call is executed more often than the
\* provider emitted it, whatever the stream delivers after its first
\* terminal chunk.
C35_ExecutedAtMostOnce ==
    StreamRequest =>
        \A i \in 1..Len(ExecutedCalls) :
            Count(ExecutedCalls, ExecutedCalls[i]) <= Count(EmittedCalls, ExecutedCalls[i])

SplitReturned == call_result.pc = "returned"

\* C38: _split_message(text, max_length) with max_length >= 1 returns, and
\* the chunks it returns are each at most max_length long, each non-empty
\* when the text is non-empty, and concatenate to the text.
C38_SplitMessage ==
    /\ <>SplitReturned
    /\ [](SplitReturned =>
            /\ \A i \in 1..Len(call_result.chunks) :
                  /\ Len(call_result.chunks[i]) <= call_args.max_length
                  /\ call_args.text # <<>> => call_result.chunks[i] # <<>>
            /\ Flatten(call_result.chunks) = call_args.text)

C38_Witness ==
    /\ SplitReturned
    /\ Len(call_result.chunks) >= 2
    /\ Len(call_result.chunks[1]) < call_args.max_length

FinalizeCalled == \E i \in 1..Len(ops) : ops[i].name = "finalize"

NothingAccumulated == Concat(AppendedTexts) = ""

AssistantMessage(text) == [role |-> "assistant", content |-> text]

\* C36: once finalize was called on a started handler with nothing
\* accumulated, get_text returns "No response generated.", and the assistant
\* message the caller stores for such a reply is that placeholder.
C36_PlaceholderStored ==
    /\ (Started /\ FinalizeCalled /\ NothingAccumulated) => GetText = NoResponseText
    /\ (NothingAccumulated /\ memory # <<>>) => memory = <<AssistantMessage(NoResponseText)>>

C36_Witness ==
    /\ phase = "finished"
    /\ NothingAccumulated
    /\ memory = <<AssistantMessage(NoResponseText)>>
    /\ GetText = NoResponseText

FailedPhases == {"start_failed", "stream_failed", "finalize_failed"}

\* one reply ends with the assistant message stored or with one error
\* notice sent, never both
C37_OneOutcome ==
    /\ notices <= 1
    /\ Len(memory) <= 1
    /\ phase = "finished" => notices + Len(memory) = 1

\* the except branch ends by a further call of finalize, then one notice,
\* and stores nothing
C37_ExceptBranch ==
    (phase \in FailedPhases /\ phase' # phase) =>
        /\ phase' = "finished"
        /\ ops'[Len(ops')].name = "finalize"
        /\ notices' = notices + 1
        /\ memory' = memory

\* the assistant message is stored by the step in which finalize returns to
\* the try block, nothing having raised
C37_StoredOnSuccess ==
    memory' # memory =>
        /\ phase = "streaming"
        /\ \A i \in 1..Len(ops') : ops'[i].result = "returned"
        /\ ops'[Len(ops')].name = "finalize"
        /\ notices' = 0

\* C37: when stream_response or the streaming handler raises, the caller
\* calls finalize once more, sends exactly one error notice and adds no
\* assistant message; an assistant message is added only when the stream
\* and finalize completed without raising.
C37_ErrorPath ==
    /\ []C37_OneOutcome
    /\ [][C37_ExceptBranch /\ C37_StoredOnSuccess]_vars

C37_Witness ==
    /\ phase = "finished"
    /\ notices = 1
    /\ memory = <<>>
    /\ accumulated_text # ""
    /\ Cardinality({i \in 1..Len(ops) : ops[i].name = "finalize"}) = 2

Pending == worklog.exists /\ worklog.state = PendingConfirmation

\* C39: while a work-log session is in PENDING_CONFIRMATION no message or
\* command adds, edits or removes an entry: its entries are those of the
\* /done preview, and so are the entries summarized on confirmation.
C39_PendingFrozen ==
    /\ Pending => worklog.entries = worklog_log.preview
    /\ worklog_log.summarized => worklog_log.summary = worklog_log.preview

\* the tool call deltas of the first n vendor chunks, in arrival order
DeltasUpTo(n) ==
    Flatten([i \in 1..n |-> IF vendor_events[i].choices
                            THEN vendor_events[i].tool_calls ELSE <<>>])

\* the fragments received for an index among deltas, concatenated in arrival order
FragmentsOf(deltas, index) ==
    LET sel == SelectSeq(deltas, LAMBDA tc : tc.index = index)
    IN  Flatten([i \in 1..Len(sel) |-> sel[i].arguments])

IndicesOf(deltas) == {deltas[i].index : i \in 1..Len(deltas)}

\* the ToolCalls of a chunk are one per index of the deltas, each with the
\* decoded concatenation of the fragments of its index, or {} if that is no JSON
OnePerIndex(tcs, deltas) ==
    /\ Len(tcs) = Cardinality(IndicesOf(deltas))
    /\ \E index_of \in [1..Len(tcs) -> IndicesOf(deltas)] :
          /\ \A i, j \in 1..Len(tcs) : index_of[i] = index_of[j] => i = j
          /\ \A i \in 1..Len(tcs) :
                LET decoded == JsonLoads(FragmentsOf(deltas, index_of[i]))
                IN  tcs[i].arguments = IF decoded.ok THEN decoded.value ELSE JDict(<<>>)

\* C32: in the OpenAI-compatible stream only a chunk whose finish_reason is
\* "tool_calls" carries ToolCalls: one per index seen, with the decoded
\* concatenation, in arrival order, of the fragments of that index, or the
\* empty mapping when it is not valid JSON; the generator goes on after it.
C32_ToolCallsAtFinish ==
    /\ stream_locals.pc \in {"streaming", "returned"}
    /\ \A k \in 1..Len(stream_chunks) :
          LET chunk == stream_chunks[k].chunk
          IN  IF chunk.finish_reason = "tool_calls"
              THEN OnePerIndex(chunk.tool_calls, DeltasUpTo(stream_chunks[k].at))
              ELSE chunk.tool_calls = <<>>

C32_Witness ==
    /\ Len(stream_chunks) = 3
    /\ stream_chunks[2].chunk.finish_reason = None
    /\ LET tcs == stream_chunks[3].chunk.tool_calls
       IN  /\ Len(tcs) = 2
           /\ tcs[1].arguments = JDict(<< <<(<<"q">>), JInt(1)>> >>)
           /\ tcs[2].arguments = JDict(<<>>)
           /\ FragmentsOf(DeltasUpTo(3), 1) # <<>>

\* the tool_use blocks that have started, by the position of their start event
ToolUseStarts ==
    {s \in EventsOfType("content_block_start") : vendor_events[s].block.type = "tool_use"}

Closed(s) == \E e \in EventsOfType("content_block_stop") : e > s

\* the position of the stop event of a closed block
StopOf(s) ==
    CHOOSE e \in EventsOfType("content_block_stop") :
        e > s /\ \A f \in EventsOfType("content_block_stop") : f > s => e <= f

\* the partial-JSON deltas of a closed block, concatenated in arrival order
PartialJsonOf(s) ==
    Flatten([i \in 1..(StopOf(s) - s - 1) |-> vendor_events[s + i].partial_json])

ToolCallChunks == {k \in 1..Len(stream_chunks) : stream_chunks[k].chunk.tool_calls # <<>>}

TerminalChunks == {k \in 1..Len(stream_chunks) : stream_chunks[k].chunk.is_complete}

\* the ToolCall chunk of the closed block started at s
IsChunkOf(k, s) ==
    LET decoded == JsonLoads(PartialJsonOf(s))
    IN  /\ stream_chunks[k].at = StopOf(s)
        /\ stream_chunks[k].chunk.tool_calls =
              <<ToolCall(vendor_events[s].block.id, vendor_events[s].block.name,
                         IF decoded.ok THEN decoded.value ELSE JDict(<<>>))>>

\* one ToolCall chunk per closed tool_use block, yielded at its stop event,
\* and none for a block that is still open
C33_OneChunkPerBlock ==
    /\ \A s \in ToolUseStarts :
          Closed(s) => Cardinality({k \in ToolCallChunks : IsChunkOf(k, s)}) = 1
    /\ \A k \in ToolCallChunks : \E s \in ToolUseStarts : Closed(s) /\ IsChunkOf(k, s)

\* message_stop yields the terminal chunk, after every ToolCall chunk
C33_TerminalLast ==
    /\ TerminalChunks # {} <=> MessageStopped
    /\ \A k \in TerminalChunks :
          /\ k = Len(stream_chunks)
          /\ stream_chunks[k].chunk = StreamChunk("", <<>>, "end_turn", TRUE)
          /\ vendor_events[stream_chunks[k].at].type = "message_stop"

\* the turn is over: every tool_use block has its chunk and the terminal
\* chunk was yielded
C33_TurnComplete ==
    /\ MessageStopped
    /\ TerminalChunks # {}
    /\ Cardinality(ToolCallChunks) = Cardinality(ToolUseStarts)

\* C33: in the Anthropic stream each tool_use block yields exactly one
\* ToolCall chunk, when the block closes and not before, with the decoded
\* concatenation of its partial-JSON deltas (the empty mapping when that is
\* no JSON); message_stop yields the terminal chunk (is_complete,
\* finish_reason "end_turn") after all ToolCall chunks of the turn.
C33_ToolCallPerBlock ==
    /\ [](C33_OneChunkPerBlock /\ C33_TerminalLast)
    /\ <>C33_TurnComplete

C33_Witness ==
    /\ C33_TurnComplete
    /\ Cardinality(ToolCallChunks) = 2
    /\ \E k \in ToolCallChunks :
          stream_chunks[k].chunk.tool_calls[1].arguments = JDict(<< <<(<<"q">>), JInt(1)>> >>)
    /\ \E k \in ToolCallChunks :
          /\ stream_chunks[k].chunk.tool_calls[1].arguments = JDict(<<>>)
          /\ \E s \in ToolUseStarts : IsChunkOf(k, s) /\ PartialJsonOf(s) # <<>>

====
